---- MODULE Spec2Model ----
(***************************************************************************)
(* go-envoy-keyauth: the API-key authentication filter (src/filter).       *)
(*                                                                         *)
(* Go strings that the code parses (paths, query strings, Cookie headers,  *)
(* key values, reply bodies) are sequences of one-character strings, so    *)
(* strings.Index / Split / SplitN / TrimSpace / HasPrefix are computed     *)
(* character by character.  Names that are only compared as a whole        *)
(* (header names, cluster names, source kinds) are plain strings.          *)
(***************************************************************************)
EXTENDS Integers, Sequences, FiniteSets, TLC

VARIABLES
    config,     \* the *Config the Filter was created with (Filter.Config)
    snapshot,   \* the key store's active key -> username mapping
    header,     \* api.RequestHeaderMap: [path, fields]
    cluster,    \* StreamInfo().UpstreamClusterName(): [name, exists]
    apiKey,     \* Filter.apiKey
    status,     \* the api.StatusType DecodeHeaders returned ("none" before)
    reply,      \* the arguments of SendLocalReply, NoReply when not called
    lookups,    \* how many times KeySource.GetUsername has been called
    pc,         \* "parse" -> "received" -> "decoded" -> "encoded", "failed" when
                \* Parse returned an error; "call" -> "done" for one function
    ret,        \* the value returned by the function a function run applies
    client,     \* the pieces the client built the request from
    response,   \* api.ResponseHeaderMap: the Set-Cookie values added to it
    file,       \* the backing key file: [readable, lines, writes]
    loading,    \* the refresh in flight: [active, read, lines, candidate, last]
    interval    \* the check interval the key source was created with (seconds)

vars == <<config, snapshot, header, cluster, apiKey, status, reply, lookups, pc, ret, client,
          response, file, loading, interval>>

\* the key source and its file
keySource == <<snapshot, file, loading, interval>>

----------------------------------------------------------------------------
(* Bounds of the model *)

MaxExcludes == 2    \* longest global exclusion list
MaxParams == 3      \* most "&"-separated parameters of a query string
MaxCookies == 3     \* most ";"-separated parts of a Cookie header
MaxPriority == 3    \* longest AuthPriority list
MaxWrites == 2      \* most rewrites of the key file while a key source lives
MaxMutations == 2   \* most writes a caller makes to a merged configuration

----------------------------------------------------------------------------
(* Go's strings package on character sequences *)

Str == Seq(STRING)

\* strings.Index(s, c) for a one-character c: 0-based, -1 when absent
Index(s, c) ==
    IF \E i \in 1..Len(s) : s[i] = c
    THEN (CHOOSE i \in 1..Len(s) : s[i] = c /\ \A j \in 1..(i - 1) : s[j] # c) - 1
    ELSE -1

\* the Go slice expression s[i:j]
Slice(s, i, j) == SubSeq(s, i + 1, j)

\* strings.HasPrefix
HasPrefix(s, prefix) ==
    Len(s) >= Len(prefix) /\ SubSeq(s, 1, Len(prefix)) = prefix

\* strings.Split(s, c) for a one-character separator
RECURSIVE Split(_, _)
Split(s, c) ==
    LET m == Index(s, c)
    IN  IF m = -1 THEN <<s>>
        ELSE <<Slice(s, 0, m)>> \o Split(Slice(s, m + 1, Len(s)), c)

\* strings.SplitN(s, c, 2)
SplitN2(s, c) ==
    LET m == Index(s, c)
    IN  IF m = -1 THEN <<s>>
        ELSE <<Slice(s, 0, m), Slice(s, m + 1, Len(s))>>

\* unicode.IsSpace on the characters of the model
IsSpace(c) == c \in {" ", "\t"}

\* strings.TrimSpace
RECURSIVE TrimLeft(_)
TrimLeft(s) ==
    IF s # <<>> /\ IsSpace(Head(s)) THEN TrimLeft(Tail(s)) ELSE s

RECURSIVE TrimRight(_)
TrimRight(s) ==
    IF s # <<>> /\ IsSpace(s[Len(s)]) THEN TrimRight(SubSeq(s, 1, Len(s) - 1)) ELSE s

TrimSpace(s) == TrimRight(TrimLeft(s))

\* a Go map[string]string: a function on the set of its keys
EmptyMap == [k \in {} |-> <<>>]

MapSet(m, k, v) == [x \in (DOMAIN m) \cup {k} |-> IF x = k THEN v ELSE m[x]]

----------------------------------------------------------------------------
(* Path exclusion (filter.go) *)

\* getClusterName: the empty name when the upstream cluster is not known
getClusterName(streamInfo) ==
    IF ~streamInfo.exists THEN "" ELSE streamInfo.name

\* (mutation of getPathWithoutQuery: the query string is kept)
getPathWithoutQuery_keepsQuery(path) == path

\* getPathWithoutQuery: the path up to its first "?"
getPathWithoutQuery(path) ==
    LET queryPos == Index(path, "?")
    IN  IF queryPos # -1 THEN Slice(path, 0, queryPos) ELSE path

\* (mutation of isPathInExcludeList: the path must equal a listed entry)
isPathInExcludeList_exact(path, excludePaths) ==
    \E i \in 1..Len(excludePaths) : path = excludePaths[i]

\* isPathInExcludeList: some listed prefix is a prefix of the path
isPathInExcludeList(path, excludePaths) ==
    \E i \in 1..Len(excludePaths) : HasPrefix(path, excludePaths[i])

isPathExcludedGlobally(cfg, pathOnly) ==
    isPathInExcludeList(pathOnly, cfg.ExcludePaths)

\* (mutation of isPathExcludedForCluster: every cluster's list is consulted)
isPathExcludedForCluster_anyCluster(cfg, pathOnly, clusterName) ==
    \E c \in DOMAIN cfg.ClusterConfigs :
        isPathInExcludeList(pathOnly, cfg.ClusterConfigs[c].ExcludePaths)

isPathExcludedForCluster(cfg, pathOnly, clusterName) ==
    IF clusterName = "" THEN FALSE
    ELSE IF clusterName \notin DOMAIN cfg.ClusterConfigs THEN FALSE
    ELSE isPathInExcludeList(pathOnly, cfg.ClusterConfigs[clusterName].ExcludePaths)

shouldSkipAuth(cfg, path, clusterName) ==
    LET pathOnly == getPathWithoutQuery(path)
    IN  IF isPathExcludedGlobally(cfg, pathOnly) THEN TRUE
        ELSE IF isPathExcludedForCluster(cfg, pathOnly, clusterName) THEN TRUE
        ELSE FALSE

----------------------------------------------------------------------------
(* Query-string parsing (filter.go) *)

\* getQueryStringFromPath: what follows the first "?", "" when there is none
getQueryStringFromPath(path) ==
    LET queryPos == Index(path, "?")
    IN  IF queryPos = -1 THEN <<>> ELSE Slice(path, queryPos + 1, Len(path))

\* (mutation of parseQueryParameter: a name already stored keeps its value)
parseQueryParameter_keepsFirst(param, result) ==
    IF param = <<>> THEN result
    ELSE LET keyValue == SplitN2(param, "=")
         IN  IF keyValue[1] \in DOMAIN result THEN result
             ELSE IF Len(keyValue) = 2 THEN MapSet(result, keyValue[1], keyValue[2])
             ELSE MapSet(result, keyValue[1], <<>>)

\* parseQueryParameter: result with the parameter stored under its name
parseQueryParameter(param, result) ==
    IF param = <<>> THEN result
    ELSE LET keyValue == SplitN2(param, "=")
         IN  IF Len(keyValue) = 2 THEN MapSet(result, keyValue[1], keyValue[2])
             ELSE IF Len(keyValue) = 1 THEN MapSet(result, keyValue[1], <<>>)
             ELSE result

\* the loop of parseQueryString over the split parameters
RECURSIVE parseQueryParams(_, _)
parseQueryParams(params, result) ==
    IF params = <<>> THEN result
    ELSE parseQueryParams(Tail(params), parseQueryParameter(Head(params), result))

parseQueryString(queryString) ==
    parseQueryParams(Split(queryString, "&"), EmptyMap)

ExtractQueryParams(path) ==
    LET queryString == getQueryStringFromPath(path)
    IN  IF queryString = <<>> THEN EmptyMap ELSE parseQueryString(queryString)

----------------------------------------------------------------------------
(* Cookie parsing (cookie.go) *)

\* (mutation of parseCookiePart: a name already stored keeps its value)
parseCookiePart_keepsFirst(rawPart, cookies) ==
    LET part == TrimSpace(rawPart)
    IN  IF part = <<>> THEN cookies
        ELSE LET kv == SplitN2(part, "=")
             IN  IF Len(kv) = 2 /\ kv[1] \notin DOMAIN cookies
                 THEN MapSet(cookies, kv[1], kv[2]) ELSE cookies

\* (mutation of parseCookiePart: the part is not trimmed)
parseCookiePart_noTrim(rawPart, cookies) ==
    IF rawPart = <<>> THEN cookies
    ELSE LET kv == SplitN2(rawPart, "=")
         IN  IF Len(kv) = 2 THEN MapSet(cookies, kv[1], kv[2]) ELSE cookies

\* the body of parseCookies' loop: one ";"-separated part
parseCookiePart(rawPart, cookies) ==
    LET part == TrimSpace(rawPart)
    IN  IF part = <<>> THEN cookies
        ELSE LET kv == SplitN2(part, "=")
             IN  IF Len(kv) = 2 THEN MapSet(cookies, kv[1], kv[2]) ELSE cookies

RECURSIVE parseCookieParts(_, _)
parseCookieParts(parts, cookies) ==
    IF parts = <<>> THEN cookies
    ELSE parseCookieParts(Tail(parts), parseCookiePart(Head(parts), cookies))

parseCookies(cookieHeader) ==
    parseCookieParts(Split(cookieHeader, ";"), EmptyMap)

----------------------------------------------------------------------------
(* Cookie construction (cookie.go) *)

\* fmt's %d
RECURSIVE FormatNat(_)
FormatNat(n) ==
    LET digit == <<"0", "1", "2", "3", "4", "5", "6", "7", "8", "9">>[(n % 10) + 1]
    IN  IF n < 10 THEN <<digit>> ELSE Append(FormatNat(n \div 10), digit)

FormatInt(n) == IF n < 0 THEN <<"-">> \o FormatNat(-n) ELSE FormatNat(n)

DefaultCookieSettings ==
    [Enabled |-> TRUE, MaxAge |-> 86400 * 30, Domain |-> <<>>, Path |-> <<"/">>,
     Secure |-> TRUE, HttpOnly |-> TRUE, SameSite |-> <<"L", "a", "x">>,
     SaveToCookie |-> TRUE]

\* (mutation of cookieString: HttpOnly is appended before Secure)
cookieString_httpOnlyFirst(name, value, settings) ==
    LET base == name \o <<"=">> \o value \o <<";", " ", "M", "a", "x", "-", "A", "g", "e", "=">> \o FormatInt(settings.MaxAge)
                \o <<";", " ", "P", "a", "t", "h", "=">> \o settings.Path
        withDomain == IF settings.Domain # <<>>
                      THEN base \o <<";", " ", "D", "o", "m", "a", "i", "n", "=">> \o settings.Domain ELSE base
        withHttpOnly == IF settings.HttpOnly THEN withDomain \o <<";", " ", "H", "t", "t", "p", "O", "n", "l", "y">> ELSE withDomain
        withSecure == IF settings.Secure THEN withHttpOnly \o <<";", " ", "S", "e", "c", "u", "r", "e">> ELSE withHttpOnly
    IN  IF settings.SameSite # <<>>
        THEN withSecure \o <<";", " ", "S", "a", "m", "e", "S", "i", "t", "e", "=">> \o settings.SameSite ELSE withSecure

\* the cookie string SetCookie builds
cookieString(name, value, settings) ==
    LET base == name \o <<"=">> \o value \o <<";", " ", "M", "a", "x", "-", "A", "g", "e", "=">> \o FormatInt(settings.MaxAge)
                \o <<";", " ", "P", "a", "t", "h", "=">> \o settings.Path
        withDomain == IF settings.Domain # <<>>
                      THEN base \o <<";", " ", "D", "o", "m", "a", "i", "n", "=">> \o settings.Domain ELSE base
        withSecure == IF settings.Secure THEN withDomain \o <<";", " ", "S", "e", "c", "u", "r", "e">> ELSE withDomain
        withHttpOnly == IF settings.HttpOnly THEN withSecure \o <<";", " ", "H", "t", "t", "p", "O", "n", "l", "y">> ELSE withSecure
    IN  IF settings.SameSite # <<>>
        THEN withHttpOnly \o <<";", " ", "S", "a", "m", "e", "S", "i", "t", "e", "=">> \o settings.SameSite ELSE withHttpOnly

\* SetCookie: the response's Set-Cookie values afterwards (header.Add)
SetCookie(setCookies, name, value, settings) ==
    IF ~settings.Enabled THEN setCookies
    ELSE Append(setCookies, cookieString(name, value, settings))

----------------------------------------------------------------------------
(* Credential extraction (filter.go) *)

AuthSourceHeader == "header"
AuthSourceQuery == "query"
AuthSourceCookie == "cookie"
AuthSourceNone == "none"

\* api.RequestHeaderMap.Get: (value, exists)
Get(hdr, name) ==
    IF name \in DOMAIN hdr.fields
    THEN [value |-> hdr.fields[name], exists |-> TRUE]
    ELSE [value |-> <<>>, exists |-> FALSE]

\* api.RequestHeaderMap.Set: the header holds exactly this value afterwards
Set(hdr, name, value) ==
    [hdr EXCEPT !.fields =
        [n \in (DOMAIN hdr.fields) \cup {name} |->
            IF n = name THEN value ELSE hdr.fields[n]]]

getHeaderAPIKey(cfg, hdr) ==
    IF cfg.APIKeyHeader = "" THEN [key |-> <<>>, exists |-> FALSE]
    ELSE LET h == Get(hdr, cfg.APIKeyHeader)
         IN  [key |-> h.value, exists |-> h.exists /\ h.value # <<>>]

getQueryAPIKey(cfg, hdr) ==
    IF cfg.APIKeyQueryParam = <<>> THEN [key |-> <<>>, exists |-> FALSE]
    ELSE LET queryParams == ExtractQueryParams(hdr.path)
             queryExists == cfg.APIKeyQueryParam \in DOMAIN queryParams
             queryValue == IF queryExists THEN queryParams[cfg.APIKeyQueryParam] ELSE <<>>
         IN  [key |-> queryValue, exists |-> queryExists /\ queryValue # <<>>]

getCookieAPIKey(cfg, hdr) ==
    IF cfg.APIKeyCookie = <<>> THEN [key |-> <<>>, exists |-> FALSE]
    ELSE LET c == Get(hdr, "Cookie")
         IN  IF ~c.exists \/ c.value = <<>> THEN [key |-> <<>>, exists |-> FALSE]
             ELSE LET cookies == parseCookies(c.value)
                      exists == cfg.APIKeyCookie \in DOMAIN cookies
                      value == IF exists THEN cookies[cfg.APIKeyCookie] ELSE <<>>
                  IN  [key |-> value, exists |-> exists /\ value # <<>>]

\* one iteration of extractAPIKeyByPriority's switch
getSourceAPIKey(cfg, hdr, source) ==
    CASE source = "header" -> getHeaderAPIKey(cfg, hdr)
      [] source = "query" -> getQueryAPIKey(cfg, hdr)
      [] source = "cookie" -> getCookieAPIKey(cfg, hdr)
      [] OTHER -> [key |-> <<>>, exists |-> FALSE]

\* (mutation of extractFrom: a later source that holds a value overrides an
\* earlier one)
RECURSIVE extractFrom_laterWins(_, _, _)
extractFrom_laterWins(priority, cfg, hdr) ==
    IF priority = <<>> THEN [apiKey |-> <<>>, authSource |-> AuthSourceNone]
    ELSE LET found == getSourceAPIKey(cfg, hdr, Head(priority))
             rest == extractFrom_laterWins(Tail(priority), cfg, hdr)
         IN  IF rest.authSource # AuthSourceNone THEN rest
             ELSE IF found.exists
             THEN [apiKey |-> found.key, authSource |-> Head(priority)]
             ELSE rest

RECURSIVE extractFrom(_, _, _)
extractFrom(priority, cfg, hdr) ==
    IF priority = <<>> THEN [apiKey |-> <<>>, authSource |-> AuthSourceNone]
    ELSE LET found == getSourceAPIKey(cfg, hdr, Head(priority))
         IN  IF found.exists
             THEN [apiKey |-> found.key, authSource |-> Head(priority)]
             ELSE extractFrom(Tail(priority), cfg, hdr)

extractAPIKeyByPriority(cfg, hdr) == extractFrom(cfg.AuthPriority, cfg, hdr)

----------------------------------------------------------------------------
(* Authentication of one request (filter.go) *)

Forbidden == <<"F", "o", "r", "b", "i", "d", "d", "e", "n">>
InvalidAPIKey == <<"I", "n", "v", "a", "l", "i", "d", " ", "A", "P", "I", " ", "k", "e", "y">>

StatusUnauthorized == 401

NoReply == [code |-> 0, body |-> <<>>, headers |-> EmptyMap,
            grpcStatus |-> 0, details |-> ""]

\* KeySource.GetUsername on the active snapshot: (username, err)
GetUsername(store, key) ==
    IF key \in DOMAIN store
    THEN [username |-> store[key], err |-> FALSE]
    ELSE [username |-> <<>>, err |-> TRUE]

createAuthErrorHeaders ==
    [n \in {"content-type", "www-authenticate"} |->
        IF n = "content-type" THEN <<"text/plain">> ELSE <<"X-API-Key">>]

\* rejectWithUnauthorized: SendLocalReply(401, message, headers, -1, "auth_failure")
rejectWithUnauthorized(message) ==
    [status |-> "LocalReply",
     reply |-> [code |-> StatusUnauthorized, body |-> message,
                headers |-> createAuthErrorHeaders,
                grpcStatus |-> -1, details |-> "auth_failure"]]

buildMissingAPIKeyMessage(cfg) == Forbidden

rejectMissingAPIKey(cfg) == rejectWithUnauthorized(buildMissingAPIKeyMessage(cfg))

\* (mutation of authenticateRequest: the username is added only when the
\* request carries no identity header yet)
authenticateRequest_keepsClientHeader(cfg, store, hdr, key) ==
    LET found == GetUsername(store, key)
    IN  IF found.err
        THEN LET r == rejectWithUnauthorized(InvalidAPIKey)
             IN  [status |-> r.status, reply |-> r.reply, header |-> hdr]
        ELSE [status |-> "Continue", reply |-> NoReply,
              header |-> IF cfg.UsernameHeader \in DOMAIN hdr.fields THEN hdr
                         ELSE Set(hdr, cfg.UsernameHeader, found.username)]

\* (mutation of authenticateRequest: a failed lookup lets the request through)
authenticateRequest_failOpen(cfg, store, hdr, key) ==
    LET found == GetUsername(store, key)
    IN  [status |-> "Continue", reply |-> NoReply,
         header |-> IF found.err THEN hdr
                    ELSE Set(hdr, cfg.UsernameHeader, found.username)]

\* (mutation of authenticateRequest: the rejection names the key it refused)
authenticateRequest_echoesKey(cfg, store, hdr, key) ==
    LET found == GetUsername(store, key)
    IN  IF found.err
        THEN LET r == rejectWithUnauthorized(InvalidAPIKey \o <<":", " ">> \o key)
             IN  [status |-> r.status, reply |-> r.reply, header |-> hdr]
        ELSE [status |-> "Continue", reply |-> NoReply,
              header |-> Set(hdr, cfg.UsernameHeader, found.username)]

\* (mutation of authenticateRequest: the identity header is written before
\* the lookup's error is tested)
authenticateRequest_setsBeforeLookup(cfg, store, hdr, key) ==
    LET found == GetUsername(store, key)
        written == Set(hdr, cfg.UsernameHeader, found.username)
    IN  IF found.err
        THEN LET r == rejectWithUnauthorized(InvalidAPIKey)
             IN  [status |-> r.status, reply |-> r.reply, header |-> written]
        ELSE [status |-> "Continue", reply |-> NoReply, header |-> written]

\* authenticateRequest: what it returns, sends and leaves in the request headers
authenticateRequest(cfg, store, hdr, key) ==
    LET found == GetUsername(store, key)
    IN  IF found.err
        THEN LET r == rejectWithUnauthorized(InvalidAPIKey)
             IN  [status |-> r.status, reply |-> r.reply, header |-> hdr]
        ELSE [status |-> "Continue", reply |-> NoReply,
              header |-> Set(hdr, cfg.UsernameHeader, found.username)]

\* (mutation of DecodeOutcome: an empty extracted key is not rejected but
\* handed to authenticateRequest)
DecodeOutcome_noEmptyCheck(cfg, store, hdr, streamInfo, fApiKey) ==
    IF shouldSkipAuth(cfg, hdr.path, getClusterName(streamInfo))
    THEN [status |-> "Continue", reply |-> NoReply, header |-> hdr,
          apiKey |-> fApiKey, lookups |-> 0]
    ELSE LET x == extractAPIKeyByPriority(cfg, hdr)
             a == authenticateRequest(cfg, store, hdr, x.apiKey)
         IN  [status |-> a.status, reply |-> a.reply, header |-> a.header,
              apiKey |-> IF a.status = "Continue" THEN x.apiKey ELSE fApiKey,
              lookups |-> 1]

\* (mutation of DecodeOutcome: after a failed lookup the sources after the
\* one that gave the key are tried)
DecodeOutcome_fallsBack(cfg, store, hdr, streamInfo, fApiKey) ==
    IF shouldSkipAuth(cfg, hdr.path, getClusterName(streamInfo))
    THEN [status |-> "Continue", reply |-> NoReply, header |-> hdr,
          apiKey |-> fApiKey, lookups |-> 0]
    ELSE LET x == extractAPIKeyByPriority(cfg, hdr)
         IN  IF x.apiKey = <<>>
             THEN LET r == rejectMissingAPIKey(cfg)
                  IN  [status |-> r.status, reply |-> r.reply, header |-> hdr,
                       apiKey |-> fApiKey, lookups |-> 0]
             ELSE LET a == authenticateRequest(cfg, store, hdr, x.apiKey)
                      used == CHOOSE i \in 1..Len(cfg.AuthPriority) :
                                 /\ cfg.AuthPriority[i] = x.authSource
                                 /\ \A j \in 1..(i - 1) : cfg.AuthPriority[j] # x.authSource
                      later == [cfg EXCEPT !.AuthPriority =
                                   SubSeq(cfg.AuthPriority, used + 1, Len(cfg.AuthPriority))]
                      y == extractAPIKeyByPriority(later, hdr)
                      b == authenticateRequest(cfg, store, hdr, y.apiKey)
                  IN  IF a.status = "Continue" \/ y.apiKey = <<>>
                      THEN [status |-> a.status, reply |-> a.reply, header |-> a.header,
                            apiKey |-> IF a.status = "Continue" THEN x.apiKey ELSE fApiKey,
                            lookups |-> 1]
                      ELSE [status |-> b.status, reply |-> b.reply, header |-> b.header,
                            apiKey |-> IF b.status = "Continue" THEN y.apiKey ELSE fApiKey,
                            lookups |-> 2]

\* Filter.DecodeHeaders on a Filter whose apiKey field holds fApiKey
DecodeOutcome(cfg, store, hdr, streamInfo, fApiKey) ==
    LET path == hdr.path
        clusterName == getClusterName(streamInfo)
    IN  IF shouldSkipAuth(cfg, path, clusterName)
        THEN [status |-> "Continue", reply |-> NoReply, header |-> hdr,
              apiKey |-> fApiKey, lookups |-> 0]
        ELSE LET x == extractAPIKeyByPriority(cfg, hdr)
             IN  IF x.apiKey = <<>>
                 THEN LET r == rejectMissingAPIKey(cfg)
                      IN  [status |-> r.status, reply |-> r.reply, header |-> hdr,
                           apiKey |-> fApiKey, lookups |-> 0]
                 ELSE LET a == authenticateRequest(cfg, store, hdr, x.apiKey)
                      IN  [status |-> a.status, reply |-> a.reply, header |-> a.header,
                           apiKey |-> IF a.status = "Continue" THEN x.apiKey ELSE fApiKey,
                           lookups |-> 1]

DecodeHeaders ==
    /\ pc = "received"
    /\ LET out == DecodeOutcome(config, snapshot, header, cluster, apiKey)
       IN  /\ status' = out.status
           /\ reply' = out.reply
           /\ header' = out.header
           /\ apiKey' = out.apiKey
           /\ lookups' = lookups + out.lookups
    /\ pc' = "decoded"
    /\ UNCHANGED <<config, cluster, client, ret, response, keySource>>

\* SaveAPIKeyToCookie: the response's Set-Cookie values afterwards
SaveAPIKeyToCookie(cfg, setCookies, key, authSource) ==
    IF ~cfg.CookieSettings.Enabled \/ cfg.APIKeyCookie = <<>> THEN setCookies
    ELSE IF ~cfg.CookieSettings.SaveToCookie THEN setCookies
    ELSE IF authSource = AuthSourceCookie THEN setCookies
    ELSE SetCookie(setCookies, cfg.APIKeyCookie, key, cfg.CookieSettings)

\* EncodeHeaders, called with the headers of the response on its way through
\* the encoder chain: the upstream's response, or the local reply
\* DecodeHeaders sent
EncodeHeaders ==
    /\ pc = "decoded"
    /\ response' = SaveAPIKeyToCookie(config, response, apiKey, AuthSourceHeader)
    /\ pc' = "encoded"
    /\ UNCHANGED <<config, header, cluster, apiKey, status, reply, lookups, client, ret,
                   keySource>>

----------------------------------------------------------------------------
(* Requests, configurations and key stores the runs draw from *)

\* an optional piece of a request: {} when absent, {v} when present
The(opt) == CHOOSE v \in opt : TRUE

RECURSIVE Join(_, _)
Join(parts, sep) ==
    IF parts = <<>> THEN <<>>
    ELSE IF Len(parts) = 1 THEN parts[1]
    ELSE parts[1] \o sep \o Join(Tail(parts), sep)

Sources == {"header", "query", "cookie"}

\* every priority list of at most MaxPriority sources
Priorities == UNION {[1..n -> Sources] : n \in 0..MaxPriority}

HeaderName == "X-API-Key"
ParamName == <<"k">>
CookieName == <<"c">>
IdentityHeader == "X-User-ID"

P_a == <<"/", "a">>
P_health == <<"/", "h", "e", "a", "l", "t", "h">>

Cfg(hdrName, paramName, cookieName, priority, excludes, clusters) ==
    [APIKeyHeader |-> hdrName, APIKeyQueryParam |-> paramName,
     APIKeyCookie |-> cookieName, UsernameHeader |-> IdentityHeader,
     AuthPriority |-> priority, ExcludePaths |-> excludes,
     ClusterConfigs |-> clusters, CookieSettings |-> DefaultCookieSettings]

NoClusters == [c \in {} |-> [ExcludePaths |-> <<>>]]

\* the request a client sends: its API key in the header, the query parameter
\* and the cookie (each optional), an identity header of its own, and
\* (decoy) an unrelated parameter and cookie in front of the key's
RequestOf(c) ==
    LET params == (IF c.decoy THEN << <<"x", "=", "7">> >> ELSE <<>>)
                  \o (IF c.qkey = {} THEN <<>> ELSE << ParamName \o <<"=">> \o The(c.qkey) >>)
        cookies == (IF c.decoy THEN << <<"d", "=", "7">> >> ELSE <<>>)
                   \o << CookieName \o <<"=">> \o The(c.ckey) >>
        names == (IF c.hdr = {} THEN {} ELSE {HeaderName})
                 \cup (IF c.ckey = {} THEN {} ELSE {"Cookie"})
                 \cup (IF c.ident = {} THEN {} ELSE {IdentityHeader})
    IN  [path |-> c.base \o (IF params = <<>> THEN <<>> ELSE <<"?">> \o Join(params, <<"&">>)),
         fields |-> [n \in names |->
                        CASE n = HeaderName -> The(c.hdr)
                          [] n = "Cookie" -> Join(cookies, <<";", " ">>)
                          [] OTHER -> The(c.ident)]]

Clients(hdrs, qkeys, ckeys, idents, bases, decoys) ==
    [hdr : hdrs, qkey : qkeys, ckey : ckeys, ident : idents, base : bases, decoy : decoys]

UnknownCluster == [name |-> "", exists |-> FALSE]

Store123 == [k \in {<<"1">>, <<"2">>, <<"3">>} |-> <<"u">> \o k]
Store2 == [k \in {<<"2">>} |-> <<"u">> \o k]

Evil == <<"r", "o", "o", "t">>

----------------------------------------------------------------------------
(* The filter on one request: FilterFactory, DecodeHeaders, EncodeHeaders *)

LifePriorities ==
    {<<>>, <<"header">>, <<"query">>,
     <<"header", "query", "cookie">>, <<"cookie", "query", "header">>}

\* the cookie name and the cookie settings of a configuration
LifeCookies ==
    {[name |-> CookieName, settings |-> DefaultCookieSettings],
     [name |-> CookieName, settings |-> [DefaultCookieSettings EXCEPT !.Enabled = FALSE]],
     [name |-> CookieName, settings |-> [DefaultCookieSettings EXCEPT !.SaveToCookie = FALSE]],
     [name |-> <<>>, settings |-> DefaultCookieSettings]}

LifeConfigs ==
    {[Cfg(h, ParamName, k.name, p, e, cl) EXCEPT !.CookieSettings = k.settings] :
        h \in {HeaderName, ""}, p \in LifePriorities,
        e \in {<<>>, <<P_health>>},
        cl \in {NoClusters, [c \in {"A"} |-> [ExcludePaths |-> <<P_a>>]]},
        k \in LifeCookies}

LifeClients ==
    Clients({{}, {<<>>}, {<<"1">>}, {<<"9">>}}, {{}, {<<"2">>}, {<<"9">>}},
            {{}, {<<"3">>}}, {{}, {Evil}}, {P_a, P_health}, {FALSE})

\* a Filter as FilterFactory returns it, before any callback has run
Fresh ==
    /\ apiKey = <<>>
    /\ status = "none"
    /\ reply = NoReply
    /\ lookups = 0
    /\ ret = <<>>
    /\ response = <<>>

\* no refresh in flight; last is the outcome of the latest refresh
NotLoading ==
    [active |-> FALSE, read |-> <<>>, lines |-> <<>>, candidate |-> EmptyMap, last |-> "none"]

\* a key source that was loaded once and is not refreshing
Loaded(keys) ==
    /\ snapshot = keys
    /\ file = [readable |-> TRUE, lines |-> <<>>, writes |-> 0]
    /\ loading = NotLoading
    /\ interval = 0

Init ==
    /\ config \in LifeConfigs
    /\ \E keys \in {Store123, Store2} : Loaded(keys)
    /\ client \in LifeClients
    /\ header = RequestOf(client)
    /\ cluster \in {UnknownCluster, [name |-> "A", exists |-> TRUE]}
    /\ Fresh
    /\ pc = "received"

Next == DecodeHeaders \/ EncodeHeaders

Spec == Init /\ [][Next]_vars

----------------------------------------------------------------------------
(* extractAPIKeyByPriority applied to every request and priority order *)

ExtractConfigs ==
    {Cfg(h, q, c, p, <<>>, NoClusters) :
        h \in {HeaderName, ""}, q \in {ParamName, <<"x">>, <<>>},
        c \in {CookieName, <<>>}, p \in Priorities}

ExtractClients ==
    Clients({{}, {<<>>}, {<<"1">>}}, {{}, {<<>>}, {<<"2">>}}, {{}, {<<>>}, {<<"3">>}},
            {{}}, {P_a}, BOOLEAN)

InitExtract ==
    /\ config \in ExtractConfigs
    /\ Loaded(Store123)
    /\ client \in ExtractClients
    /\ header = RequestOf(client)
    /\ cluster = UnknownCluster
    /\ Fresh
    /\ pc = "call"

CallExtract ==
    /\ pc = "call"
    /\ ret' = extractAPIKeyByPriority(config, header)
    /\ pc' = "done"
    /\ UNCHANGED <<config, header, cluster, apiKey, status, reply, lookups, client, response, keySource>>

SpecExtract == InitExtract /\ [][CallExtract]_vars

----------------------------------------------------------------------------
(* What a request holds, stated on the pieces the client built it from *)

\* the value the client put where the configuration looks for source src,
\* <<>> when it put none or the configuration names no place for src
Held(cfg, c, src) ==
    CASE src = "header" ->
            IF cfg.APIKeyHeader = HeaderName /\ c.hdr # {} THEN The(c.hdr) ELSE <<>>
      [] src = "query" ->
            IF cfg.APIKeyQueryParam = ParamName /\ c.qkey # {} THEN The(c.qkey)
            ELSE IF cfg.APIKeyQueryParam = <<"x">> /\ c.decoy THEN <<"7">>
            ELSE <<>>
      [] src = "cookie" ->
            IF cfg.APIKeyCookie = CookieName /\ c.ckey # {} THEN The(c.ckey) ELSE <<>>

\* the first source of the priority order that holds a non-empty value
FirstHolding(cfg, c) ==
    LET order == cfg.AuthPriority
        holding == {i \in 1..Len(order) : Held(cfg, c, order[i]) # <<>>}
    IN  IF holding = {} THEN [apiKey |-> <<>>, authSource |-> "none"]
        ELSE LET i == CHOOSE j \in holding : \A k \in holding : j <= k
             IN  [apiKey |-> Held(cfg, c, order[i]), authSource |-> order[i]]

\* s starts with p
StartsWith(s, p) == Len(p) <= Len(s) /\ \A i \in 1..Len(p) : s[i] = p[i]

\* some entry of the list is a prefix of the path
AnyPrefix(path, list) == \E i \in 1..Len(list) : StartsWith(path, list[i])

\* the path starts with a prefix excluded globally, or excluded for the
\* (known, named) cluster the request is routed to
ExcludedPath(cfg, path, streamInfo) ==
    \/ AnyPrefix(path, cfg.ExcludePaths)
    \/ /\ streamInfo.exists
       /\ streamInfo.name # ""
       /\ streamInfo.name \in DOMAIN cfg.ClusterConfigs
       /\ AnyPrefix(path, cfg.ClusterConfigs[streamInfo.name].ExcludePaths)

\* the same of the path the client asked for (it holds no "?")
Excluded(cfg, c, streamInfo) == ExcludedPath(cfg, c.base, streamInfo)

----------------------------------------------------------------------------
(* C1: for every priority order and request, extraction returns the value   *)
(* and the source kind of the first source in the configured order that     *)
(* holds a non-empty value (none of them: the empty key and source "none"); *)
(* absent, empty and unconfigured sources are skipped, and what later       *)
(* sources hold does not matter.                                            *)
C1_FirstSourceWins ==
    pc = "done" => ret = FirstHolding(config, client)

C1_Witness ==
    /\ pc = "done"
    /\ config.AuthPriority = <<"cookie", "query", "header">>
    /\ client.ckey = {<<>>} /\ client.qkey = {<<"2">>} /\ client.hdr = {<<"1">>}
    /\ config.APIKeyQueryParam = ParamName /\ config.APIKeyHeader = HeaderName
    /\ ret = [apiKey |-> <<"2">>, authSource |-> "query"]

(* C2: on a non-excluded path, a candidate key that the active snapshot     *)
(* holds lets the request continue without a local reply, and the identity  *)
(* header is exactly the identity the snapshot maps the key to, whatever    *)
(* the client sent in that header.                                          *)
C2_ValidKeyAdmitted ==
    (/\ pc = "decoded"
     /\ ~Excluded(config, client, cluster)
     /\ FirstHolding(config, client).apiKey \in DOMAIN snapshot)
    => /\ status = "Continue"
       /\ reply = NoReply
       /\ config.UsernameHeader \in DOMAIN header.fields
       /\ header.fields[config.UsernameHeader]
            = snapshot[FirstHolding(config, client).apiKey]

C2_Witness ==
    /\ pc = "decoded"
    /\ ~Excluded(config, client, cluster)
    /\ client.hdr = {<<"1">>} /\ client.ident = {Evil}
    /\ FirstHolding(config, client) = [apiKey |-> <<"1">>, authSource |-> "header"]
    /\ status = "Continue"
    /\ header.fields[IdentityHeader] = <<"u", "1">>

(* C3: on a non-excluded path, when no configured source yields a non-empty *)
(* value the request ends with the local reply 401 "Forbidden" and the key  *)
(* store has not been consulted.                                            *)
C3_MissingKeyRejected ==
    (/\ pc = "decoded"
     /\ ~Excluded(config, client, cluster)
     /\ FirstHolding(config, client).apiKey = <<>>)
    => /\ status = "LocalReply"
       /\ reply.code = 401
       /\ reply.body = Forbidden
       /\ lookups = 0

C3_Witness ==
    /\ pc = "decoded"
    /\ ~Excluded(config, client, cluster)
    /\ config.AuthPriority = <<"header", "query", "cookie">>
    /\ client.hdr = {<<>>} /\ client.qkey = {} /\ client.ckey = {}
    /\ status = "LocalReply" /\ reply.body = Forbidden

(* C4: on a non-excluded path, a candidate key that the active snapshot     *)
(* does not hold ends the request with the local reply 401                  *)
(* "Invalid API key".                                                       *)
C4_UnknownKeyRejected ==
    (/\ pc = "decoded"
     /\ ~Excluded(config, client, cluster)
     /\ FirstHolding(config, client).apiKey # <<>>
     /\ FirstHolding(config, client).apiKey \notin DOMAIN snapshot)
    => /\ status = "LocalReply"
       /\ reply.code = 401
       /\ reply.body = InvalidAPIKey

C4_Witness ==
    /\ pc = "decoded"
    /\ ~Excluded(config, client, cluster)
    /\ FirstHolding(config, client) = [apiKey |-> <<"9">>, authSource |-> "query"]
    /\ status = "LocalReply" /\ reply.body = InvalidAPIKey /\ lookups = 1

\* the non-empty key values a client may submit
KeyValues == {<<"1">>, <<"2">>, <<"3">>, <<"8">>, <<"9">>}

(* C5: the reply of a rejected request does not depend on the value of the  *)
(* submitted key: the same request with any other non-empty value in the    *)
(* place of one submitted key, when it is rejected too, gets the same       *)
(* status, headers and body.                                                *)
C5_ReplyIndependentOfKey ==
    (pc = "decoded" /\ status = "LocalReply")
    => \A slot \in {"hdr", "qkey", "ckey"} : \A v \in KeyValues :
          (client[slot] # {} /\ client[slot] # {<<>>})
          => LET other == DecodeOutcome(config, snapshot,
                              RequestOf([client EXCEPT ![slot] = {v}]), cluster, <<>>)
             IN  other.status = "LocalReply" => other.reply = reply

C5_Witness ==
    /\ pc = "decoded"
    /\ status = "LocalReply"
    /\ client.hdr = {<<"9">>}
    /\ FirstHolding(config, client) = [apiKey |-> <<"9">>, authSource |-> "header"]
    /\ reply.body = InvalidAPIKey
    /\ DecodeOutcome(config, snapshot, RequestOf([client EXCEPT !.hdr = {<<"8">>}]),
                     cluster, <<>>).status = "LocalReply"

----------------------------------------------------------------------------
(* shouldSkipAuth applied to every path, cluster and exclusion configuration *)

P_healthz == <<"/", "h", "e", "a", "l", "t", "h", "z">>
P_health_ready == <<"/", "h", "e", "a", "l", "t", "h", "/", "r", "e", "a", "d", "y">>
P_api_health == <<"/", "a", "p", "i", "/", "h", "e", "a", "l", "t", "h">>
P_heal == <<"/", "h", "e", "a", "l">>
P_api == <<"/", "a", "p", "i">>

\* the prefixes exclusion lists are made of: "" excludes every path, and
\* "/a?" can only match inside a query string
SkipPrefixes == {P_health, P_a, P_api, <<"/", "a", "?">>, <<>>}

ExcludeLists == UNION {[1..n -> SkipPrefixes] : n \in 0..MaxExcludes}

SkipClusterConfigs ==
    {NoClusters,
     [c \in {"A"} |-> [ExcludePaths |-> <<>>]],
     [c \in {"A"} |-> [ExcludePaths |-> <<P_a>>]],
     [c \in {""} |-> [ExcludePaths |-> <<P_a>>]],
     [c \in {"A", "B"} |-> [ExcludePaths |-> IF c = "A" THEN <<P_health>> ELSE <<P_api, P_a>>]]}

SkipBases == {P_health, P_health_ready, P_healthz, P_api_health, P_heal, P_a, <<"/">>, <<>>}

\* what may follow the "?" of a path
SkipQueries == {<<>>, <<"k", "=", "1">>, P_health, <<"k", "=", "/", "a", "?">>}

SkipPaths == SkipBases \cup {b \o <<"?">> \o q : b \in SkipBases, q \in SkipQueries}

SkipClusters ==
    {UnknownCluster} \cup {[name |-> n, exists |-> TRUE] : n \in {"A", "B", "C", ""}}

InitSkip ==
    /\ config \in {Cfg(HeaderName, ParamName, CookieName, <<"header">>, e, cl) :
                      e \in ExcludeLists, cl \in SkipClusterConfigs}
    /\ Loaded(Store123)
    /\ header \in {[path |-> p, fields |-> EmptyMap] : p \in SkipPaths}
    /\ client = [path |-> header.path]
    /\ cluster \in SkipClusters
    /\ Fresh
    /\ pc = "call"

CallShouldSkipAuth ==
    /\ pc = "call"
    /\ ret' = shouldSkipAuth(config, header.path, getClusterName(cluster))
    /\ pc' = "done"
    /\ UNCHANGED <<config, header, cluster, apiKey, status, reply, lookups, client, response, keySource>>

SpecSkip == InitSkip /\ [][CallShouldSkipAuth]_vars

\* the path up to its first "?": the longest prefix that holds no "?"
BeforeQuery(path) ==
    LET n == CHOOSE k \in 0..Len(path) :
                 /\ \A i \in 1..k : path[i] # "?"
                 /\ (k = Len(path) \/ path[k + 1] = "?")
    IN  SubSeq(path, 1, n)

NoExclusionsAtAll(cfg) ==
    /\ cfg.ExcludePaths = <<>>
    /\ \A c \in DOMAIN cfg.ClusterConfigs : cfg.ClusterConfigs[c].ExcludePaths = <<>>

(* C6: exclusion is by prefix, not equality: with the single global prefix  *)
(* "/health" (and no cluster prefixes) shouldSkipAuth is true exactly for   *)
(* the paths that start with "/health", and with no exclusion configured it *)
(* is false for every path.                                                 *)
C6_PrefixMatch ==
    pc = "done" =>
       /\ (config.ExcludePaths = <<P_health>> /\ config.ClusterConfigs = NoClusters)
            => (ret <=> StartsWith(header.path, P_health))
       /\ NoExclusionsAtAll(config) => ret = FALSE

C6_Witness ==
    /\ pc = "done"
    /\ config.ExcludePaths = <<P_health>> /\ config.ClusterConfigs = NoClusters
    /\ header.path = P_healthz
    /\ ret = TRUE

(* C7: shouldSkipAuth decides on the path with everything from its first    *)
(* "?" removed: appending "?" and any query string to a path never changes  *)
(* the decision, so a prefix found only in the query string skips nothing.  *)
C7_QueryIgnored ==
    pc = "done" =>
       \A q \in SkipQueries :
          shouldSkipAuth(config, header.path \o <<"?">> \o q, getClusterName(cluster)) = ret

C7_Witness ==
    /\ pc = "done"
    /\ config.ExcludePaths = <<P_health>> /\ config.ClusterConfigs = NoClusters
    /\ header.path = P_a \o <<"?">> \o P_health
    /\ ret = FALSE

(* C8: shouldSkipAuth is true iff the query-stripped path has a global      *)
(* prefix or a prefix listed under the cluster the request is routed to; a  *)
(* prefix listed under another cluster, or any cluster prefix when the      *)
(* cluster name is empty or unknown, skips nothing.                         *)
C8_ClusterScoped ==
    pc = "done" => (ret <=> ExcludedPath(config, BeforeQuery(header.path), cluster))

C8_Witness ==
    /\ pc = "done"
    /\ config.ExcludePaths = <<>>
    /\ "A" \in DOMAIN config.ClusterConfigs
    /\ config.ClusterConfigs["A"].ExcludePaths = <<P_health>>
    /\ cluster = [name |-> "B", exists |-> TRUE]
    /\ header.path = P_health
    /\ ret = FALSE

----------------------------------------------------------------------------
(* Query and cookie parsing applied to every string of a few parts *)

\* a part as the client writes it: leading blanks, a name, "=" and a value
\* (or neither), trailing blanks
Render(part) ==
    part.lead \o part.name \o (IF part.eq THEN <<"=">> \o part.value ELSE <<>>) \o part.trail

Part(lead, name, eq, value, trail) ==
    [lead |-> lead, name |-> name, eq |-> eq, value |-> value, trail |-> trail]

\* the parameters of a query string: k=v and x=v (a value may be empty or
\* hold a "="), a bare k or x, an empty parameter and a nameless "=1"
ParamForms ==
    {Part(<<>>, n, TRUE, v, <<>>) :
        n \in {<<"k">>, <<"x">>}, v \in {<<>>, <<"1">>, <<"2">>, <<"1", "=", "2">>}}
    \cup {Part(<<>>, n, FALSE, <<>>, <<>>) : n \in {<<"k">>, <<"x">>, <<>>}}
    \cup {Part(<<>>, <<>>, TRUE, <<"1">>, <<>>)}

\* the parts of a Cookie header: c=v and d=v with or without a blank in
\* front, "c=1 " with a blank behind, a bare " c", an empty and a blank part
CookieForms ==
    {Part(l, n, TRUE, v, <<>>) :
        l \in {<<>>, <<" ">>}, n \in {<<"c">>, <<"d">>}, v \in {<<>>, <<"1">>, <<"2">>}}
    \cup {Part(<<>>, <<"c">>, TRUE, <<"1">>, <<" ">>), Part(<<" ">>, <<"c">>, FALSE, <<>>, <<>>),
          Part(<<>>, <<>>, FALSE, <<>>, <<>>), Part(<<" ">>, <<>>, FALSE, <<>>, <<>>)}

RenderAll(parts) == [i \in 1..Len(parts) |-> Render(parts[i])]

InitQuery ==
    /\ config = Cfg(HeaderName, ParamName, CookieName, <<"query">>, <<>>, NoClusters)
    /\ Loaded(Store123)
    /\ client \in {[parts |-> ps] : ps \in UNION {[1..n -> ParamForms] : n \in 0..MaxParams}}
    /\ header = [path |-> P_a \o (IF client.parts = <<>> THEN <<>>
                                  ELSE <<"?">> \o Join(RenderAll(client.parts), <<"&">>)),
                 fields |-> EmptyMap]
    /\ cluster = UnknownCluster
    /\ Fresh
    /\ pc = "call"

CallGetQueryAPIKey ==
    /\ pc = "call"
    /\ ret' = [parsed |-> ExtractQueryParams(header.path),
               found |-> getQueryAPIKey(config, header)]
    /\ pc' = "done"
    /\ UNCHANGED <<config, header, cluster, apiKey, status, reply, lookups, client, response, keySource>>

SpecQuery == InitQuery /\ [][CallGetQueryAPIKey]_vars

InitCookie ==
    /\ config = Cfg(HeaderName, ParamName, CookieName, <<"cookie">>, <<>>, NoClusters)
    /\ Loaded(Store123)
    /\ client \in {[parts |-> ps] : ps \in UNION {[1..n -> CookieForms] : n \in 0..MaxCookies}}
    /\ header = [path |-> P_a,
                 fields |-> [n \in {"Cookie"} |-> Join(RenderAll(client.parts), <<";">>)]]
    /\ cluster = UnknownCluster
    /\ Fresh
    /\ pc = "call"

CallGetCookieAPIKey ==
    /\ pc = "call"
    /\ ret' = [parsed |-> parseCookies(header.fields["Cookie"]),
               found |-> getCookieAPIKey(config, header)]
    /\ pc' = "done"
    /\ UNCHANGED <<config, header, cluster, apiKey, status, reply, lookups, client, response, keySource>>

SpecCookie == InitCookie /\ [][CallGetCookieAPIKey]_vars

\* the places of the parts that are occurrences of name n: as a query
\* parameter (any non-empty part), and as a cookie (a part with a "=")
ParamOccurrences(parts, n) ==
    {i \in 1..Len(parts) : Render(parts[i]) # <<>> /\ parts[i].name = n}

CookieOccurrences(parts, n) ==
    {i \in 1..Len(parts) : parts[i].eq /\ parts[i].name = n}

First(places) == CHOOSE i \in places : \A j \in places : i <= j
Last(places) == CHOOSE i \in places : \A j \in places : j <= i

\* a parsed mapping binds every name to the value of the occurrence that
\* pick chooses, and binds no name that does not occur
BindsEach(parsed, parts, occurrences(_, _), pick(_)) ==
    \A n \in {parts[i].name : i \in 1..Len(parts)} \cup {<<"k">>, <<"c">>} :
       LET occ == occurrences(parts, n)
       IN  IF occ = {} THEN n \notin DOMAIN parsed
           ELSE n \in DOMAIN parsed /\ parsed[n] = parts[pick(occ)].value

\* the source yields the value of the chosen occurrence of the configured
\* name when that value is non-empty, and nothing otherwise
YieldsChosen(found, parts, n, occurrences(_, _), pick(_)) ==
    LET occ == occurrences(parts, n)
        v == IF occ = {} THEN <<>> ELSE parts[pick(occ)].value
    IN  /\ found.exists <=> v # <<>>
        /\ found.exists => found.key = v

C10_LastParamWins ==
    pc = "done" =>
       /\ BindsEach(ret.parsed, client.parts, ParamOccurrences, Last)
       /\ YieldsChosen(ret.found, client.parts, ParamName, ParamOccurrences, Last)

C10_Witness ==
    /\ pc = "done"
    /\ header.path = <<"/", "a", "?", "k", "=", "1", "&", "k", "=", "2", "&", "k">>
    /\ ret.parsed[<<"k">>] = <<>>
    /\ ~ret.found.exists

----------------------------------------------------------------------------
(* SetCookie applied to every name, value and settings, and parseCookies to *)
(* the string it built                                                      *)

N_MaxAge == <<"M", "a", "x", "-", "A", "g", "e">>
N_Path == <<"P", "a", "t", "h">>
N_Domain == <<"D", "o", "m", "a", "i", "n">>
N_SameSite == <<"S", "a", "m", "e", "S", "i", "t", "e">>

BuildSettings ==
    [Enabled : BOOLEAN, MaxAge : {0, 3600, 86400 * 30, -1},
     Domain : {<<>>, <<"x", ".", "i", "o">>}, Path : {<<"/">>, <<"/", ";", "c", "=", "9">>},
     Secure : BOOLEAN, HttpOnly : BOOLEAN, SameSite : {<<>>, <<"L", "a", "x">>},
     SaveToCookie : {TRUE}]

BuildNames == {<<"c">>, N_Path, <<"a", ";", "b">>, <<" ", "c">>}

BuildValues == {<<"1">>, <<>>, <<"1", "2">>, <<"1", ";", "c", "=", "2">>, <<"1", " ">>}

InitBuild ==
    /\ config = Cfg(HeaderName, ParamName, CookieName, <<"header">>, <<>>, NoClusters)
    /\ Loaded(Store123)
    /\ client \in [name : BuildNames, value : BuildValues, settings : BuildSettings]
    /\ header = [path |-> P_a, fields |-> EmptyMap]
    /\ cluster = UnknownCluster
    /\ Fresh
    /\ pc = "call"

CallSetCookie ==
    /\ pc = "call"
    /\ response' = SetCookie(response, client.name, client.value, client.settings)
    /\ ret' = IF response' = <<>> THEN EmptyMap ELSE parseCookies(response'[1])
    /\ pc' = "done"
    /\ UNCHANGED <<config, header, cluster, apiKey, status, reply, lookups, client, keySource>>

SpecBuild == InitBuild /\ [][CallSetCookie]_vars

\* the decimal text of the Max-Age values the runs use
MaxAgeText(n) ==
    CASE n = 0 -> <<"0">>
      [] n = 3600 -> <<"3", "6", "0", "0">>
      [] n = 2592000 -> <<"2", "5", "9", "2", "0", "0", "0">>
      [] n = -1 -> <<"-", "1">>

IsOn(attribute) == attribute.on

\* the attributes of the cookie string in their order, each with whether
\* the settings turn it on
Attributes(name, value, st) ==
    LET all == << [on |-> TRUE, text |-> name \o <<"=">> \o value],
                  [on |-> TRUE, text |-> N_MaxAge \o <<"=">> \o MaxAgeText(st.MaxAge)],
                  [on |-> TRUE, text |-> N_Path \o <<"=">> \o st.Path],
                  [on |-> st.Domain # <<>>, text |-> N_Domain \o <<"=">> \o st.Domain],
                  [on |-> st.Secure, text |-> <<"S", "e", "c", "u", "r", "e">>],
                  [on |-> st.HttpOnly, text |-> <<"H", "t", "t", "p", "O", "n", "l", "y">>],
                  [on |-> st.SameSite # <<>>, text |-> N_SameSite \o <<"=">> \o st.SameSite] >>
        kept == SelectSeq(all, IsOn)
    IN  [i \in 1..Len(kept) |-> kept[i].text]

\* a string of cookie-token characters
Token(s) == \A i \in 1..Len(s) : s[i] \notin {";", "=", " ", "\t"}

NoSemicolon(s) == \A i \in 1..Len(s) : s[i] # ";"

(* C12 as stated: parsing the string SetCookie built yields exactly the     *)
(* one-entry mapping {name: value}.                                         *)
C12_RoundTripExact ==
    (pc = "done" /\ client.settings.Enabled) => ret = [n \in {client.name} |-> client.value]

(* C12 as amended: for a name and a value of cookie-token characters, a     *)
(* name that is no attribute name, and enabled settings whose strings hold  *)
(* no ";", parsing the string SetCookie built yields a mapping that binds   *)
(* the name to the original value; it binds Max-Age and Path as well (and   *)
(* Domain and SameSite when set), so it is not the one-entry mapping.       *)
C12_RoundTripContains ==
    (/\ pc = "done"
     /\ client.settings.Enabled
     /\ Token(client.name) /\ Token(client.value)
     /\ client.name \notin {N_MaxAge, N_Path, N_Domain, N_SameSite}
     /\ NoSemicolon(client.settings.Path)
     /\ NoSemicolon(client.settings.Domain)
     /\ NoSemicolon(client.settings.SameSite))
    => /\ client.name \in DOMAIN ret
       /\ ret[client.name] = client.value
       /\ DOMAIN ret = {client.name, N_MaxAge, N_Path}
                       \cup (IF client.settings.Domain # <<>> THEN {N_Domain} ELSE {})
                       \cup (IF client.settings.SameSite # <<>> THEN {N_SameSite} ELSE {})

C12_Witness ==
    /\ pc = "done"
    /\ client.name = <<"c">> /\ client.value = <<"1", "2">>
    /\ client.settings.Enabled /\ client.settings.Secure
    /\ client.settings.Path = <<"/">> /\ client.settings.SameSite # <<>>
    /\ ret[<<"c">>] = <<"1", "2">>
    /\ ret[N_Path] = <<"/">>

(* C13: the cookie string is name=value; Max-Age=N; Path=P followed by      *)
(* Domain, Secure, HttpOnly and SameSite in that order, each present iff    *)
(* its setting is non-empty or true, the parts joined by "; ".              *)
C13_AttributeOrder ==
    (pc = "done" /\ client.settings.Enabled)
    => response = << Join(Attributes(client.name, client.value, client.settings),
                          <<";", " ">>) >>

C13_Witness ==
    /\ pc = "done"
    /\ client.name = <<"c">> /\ client.value = <<"1">>
    /\ client.settings = [DefaultCookieSettings EXCEPT !.Domain = <<"x", ".", "i", "o">>]
    /\ response = << <<"c", "=", "1", ";", " ", "M", "a", "x", "-", "A", "g", "e", "=", "2", "5", "9", "2", "0", "0", "0", ";", " ", "P", "a", "t", "h", "=", "/", ";", " ", "D", "o", "m", "a", "i", "n", "=", "x", ".", "i", "o", ";", " ", "S", "e", "c", "u", "r", "e", ";", " ", "H", "t", "t", "p", "O", "n", "l", "y", ";", " ", "S", "a", "m", "e", "S", "i", "t", "e", "=", "L", "a", "x">> >>

----------------------------------------------------------------------------
(* C11: the response to an authenticated request carries a Set-Cookie only  *)
(* if a cookie name is configured, saveToCookie is set and the credential   *)
(* was not extracted from the cookie source; a request authenticated from   *)
(* its cookie never receives a Set-Cookie that issues the value again.      *)
C11_NoReissueFromCookie ==
    (/\ pc = "encoded"
     /\ status = "Continue"
     /\ ~Excluded(config, client, cluster)
     /\ response # <<>>)
    => /\ config.APIKeyCookie # <<>>
       /\ config.CookieSettings.SaveToCookie
       /\ FirstHolding(config, client).authSource # "cookie"

\* a request authenticated from its cookie whose response issues the cookie again
C11_Reissued ==
    /\ pc = "encoded"
    /\ status = "Continue"
    /\ ~Excluded(config, client, cluster)
    /\ FirstHolding(config, client) = [apiKey |-> <<"3">>, authSource |-> "cookie"]
    /\ client.hdr = {} /\ client.qkey = {}
    /\ config.CookieSettings = DefaultCookieSettings
    /\ Len(response) = 1
    /\ HasPrefix(response[1], CookieName \o <<"=", "3", ";">>)

----------------------------------------------------------------------------
(* The key source: Load, Lookup and the periodic Refresh *)

\* one line of the key file, key:identity split on the first ":"; a blank
\* line is ignored, a line without ":" is malformed
loadLine(line, keys) ==
    IF line = <<>> THEN [keys |-> keys, err |-> FALSE]
    ELSE LET kv == SplitN2(line, ":")
         IN  IF Len(kv) = 2 THEN [keys |-> MapSet(keys, kv[1], kv[2]), err |-> FALSE]
             ELSE [keys |-> keys, err |-> TRUE]

RECURSIVE loadLines(_, _)
loadLines(lines, keys) ==
    IF lines = <<>> THEN [keys |-> keys, err |-> FALSE]
    ELSE LET r == loadLine(Head(lines), keys)
         IN  IF r.err THEN r ELSE loadLines(Tail(lines), r.keys)

\* Load: the snapshot of the whole source, or LoadError
Load(f) ==
    IF ~f.readable THEN [keys |-> EmptyMap, err |-> TRUE]
    ELSE loadLines(f.lines, EmptyMap)

\* the key source after its initial Load, or the error
NewFileKeySource(f, checkInterval) ==
    LET l == Load(f)
    IN  [snapshot |-> l.keys, interval |-> checkInterval, err |-> l.err]

\* (mutation of building: the candidate is built in the active snapshot)
building_inPlace(active, candidate) == candidate

\* the active snapshot while a refresh builds its candidate
building(active, candidate) == active

\* (mutation of afterFailure: a failed refresh clears the active snapshot)
afterFailure_failClosed(active) == EmptyMap

\* the active snapshot after a refresh that failed
afterFailure(active) == active

\* the timer fires: Refresh reads the source, or fails when it is unreadable
RefreshStart ==
    /\ pc = "received"
    /\ interval > 0
    /\ ~loading.active
    /\ IF file.readable
       THEN /\ loading' = [active |-> TRUE, read |-> file.lines, lines |-> file.lines,
                           candidate |-> EmptyMap, last |-> loading.last]
            /\ snapshot' = building(snapshot, EmptyMap)
       ELSE /\ loading' = [NotLoading EXCEPT !.last = "failed"]
            /\ snapshot' = afterFailure(snapshot)
    /\ UNCHANGED <<config, header, cluster, apiKey, status, reply, lookups, pc, ret, client,
                   response, file, interval>>

\* Refresh adds one line to its candidate, or fails on a malformed line
RefreshLine ==
    /\ pc = "received"
    /\ loading.active
    /\ loading.lines # <<>>
    /\ LET r == loadLine(Head(loading.lines), loading.candidate)
       IN  IF r.err
           THEN /\ loading' = [NotLoading EXCEPT !.last = "failed"]
                /\ snapshot' = afterFailure(snapshot)
           ELSE /\ loading' = [loading EXCEPT !.lines = Tail(loading.lines),
                                              !.candidate = r.keys]
                /\ snapshot' = building(snapshot, r.keys)
    /\ UNCHANGED <<config, header, cluster, apiKey, status, reply, lookups, pc, ret, client,
                   response, file, interval>>

\* Refresh publishes its complete candidate: the atomic swap
RefreshSwap ==
    /\ pc = "received"
    /\ loading.active
    /\ loading.lines = <<>>
    /\ snapshot' = loading.candidate
    /\ loading' = [NotLoading EXCEPT !.last = "ok"]
    /\ UNCHANGED <<config, header, cluster, apiKey, status, reply, lookups, pc, ret, client,
                   response, file, interval>>

\* Lookup of one key by a request in flight
Lookup(key) ==
    /\ pc = "received"
    /\ LET r == GetUsername(snapshot, key)
       IN  ret' = [key |-> key, username |-> r.username, err |-> r.err,
                   during |-> loading.active, last |-> loading.last]
    /\ UNCHANGED <<config, header, cluster, apiKey, status, reply, lookups, pc, client,
                   response, keySource>>

----------------------------------------------------------------------------
(* Parse (parser.go) *)

DefaultAPIKeyHeader == "X-API-Key"
DefaultUsernameHeader == "X-User-ID"
DefaultCheckInterval == 60

\* the zero value of CookieSettings
ZeroCookieSettings ==
    [Enabled |-> FALSE, MaxAge |-> 0, Domain |-> <<>>, Path |-> <<>>, Secure |-> FALSE,
     HttpOnly |-> FALSE, SameSite |-> <<>>, SaveToCookie |-> FALSE]

\* the nil Parse returns next to an error
NoConfig == [nil |-> TRUE]

\* the *Config Parse builds from the configuration map v; the fields its
\* literal does not name keep their zero value
parseConfig(v) ==
    [APIKeyHeader |-> IF v.api_key_header # "" THEN v.api_key_header
                      ELSE DefaultAPIKeyHeader,
     UsernameHeader |-> IF v.username_header # "" THEN v.username_header
                        ELSE DefaultUsernameHeader,
     ExcludePaths |-> v.exclude_paths,
     ClusterConfigs |-> [c \in DOMAIN v.clusters |->
                            [ExcludePaths |-> v.clusters[c].exclude_paths]],
     AuthPriority |-> <<>>,
     APIKeyQueryParam |-> <<>>,
     APIKeyCookie |-> <<>>,
     CookieSettings |-> ZeroCookieSettings]

\* (mutation of checkIntervalOf: only a positive number is taken)
checkIntervalOf_positiveOnly(v) ==
    IF v.check_interval # {} /\ The(v.check_interval).whole > 0
    THEN The(v.check_interval).whole
    ELSE DefaultCheckInterval

\* (mutation of checkIntervalOf: no default, a missing number is 0)
checkIntervalOf_noDefault(v) ==
    IF v.check_interval # {} /\ The(v.check_interval).whole >= 0
    THEN The(v.check_interval).whole
    ELSE 0

\* the check interval in seconds: check_interval is a float64, here
\* [whole, tenths] with the sign in whole; int() keeps the whole part
checkIntervalOf(v) ==
    IF v.check_interval # {} /\ The(v.check_interval).whole >= 0
    THEN The(v.check_interval).whole
    ELSE DefaultCheckInterval

\* (mutation of ParseOutcome: the key source's error is ignored)
ParseOutcome_ignoresError(v, f) ==
    LET conf == parseConfig(v)
        source == NewFileKeySource(f, checkIntervalOf(v))
    IN  [conf |-> conf, err |-> FALSE, snapshot |-> source.snapshot,
         interval |-> source.interval]

\* what Parse returns for the configuration map v when the key file is f
ParseOutcome(v, f) ==
    LET conf == parseConfig(v)
        source == NewFileKeySource(f, checkIntervalOf(v))
    IN  IF source.err
        THEN [conf |-> NoConfig, err |-> TRUE, snapshot |-> EmptyMap, interval |-> 0]
        ELSE [conf |-> conf, err |-> FALSE, snapshot |-> source.snapshot,
              interval |-> source.interval]

\* Parse, and on success FilterFactory for the request that arrives
Parse ==
    /\ pc = "parse"
    /\ LET out == ParseOutcome(client.any, file)
       IN  /\ config' = out.conf
           /\ snapshot' = out.snapshot
           /\ interval' = out.interval
           /\ ret' = [err |-> out.err]
           /\ pc' = IF out.err THEN "failed" ELSE "received"
    /\ UNCHANGED <<header, cluster, apiKey, status, reply, lookups, client, response, file,
                   loading>>

----------------------------------------------------------------------------
(* A key source from its creation by Parse: the file is rewritten, the     *)
(* timer fires, requests look keys up                                      *)

L_1 == <<"1", ":", "u", "1">>
L_4 == <<"4", ":", "u", "4">>
L_4x == <<"4", ":", "x">>
L_4c == <<"4", ":", "u", ":", "4">>
L_bad == <<"b", "a", "d">>

\* the contents the key file takes
StoreContents ==
    {[readable |-> TRUE, lines |-> <<L_1>>],
     [readable |-> TRUE, lines |-> <<L_1, <<>>, L_4>>],
     [readable |-> TRUE, lines |-> <<L_4x, L_4c>>],
     [readable |-> TRUE, lines |-> <<L_1, L_bad>>],
     [readable |-> FALSE, lines |-> <<>>]}

InitialContents == {f \in StoreContents : f.lines \in {<<>>, <<L_1>>, <<L_1, L_bad>>}}

Seconds(n) == [whole |-> n, tenths |-> 0]

\* check_interval: missing, 0, 0.5, 2, -1
CheckIntervals == {{}, {Seconds(0)}, {[whole |-> 0, tenths |-> 5]}, {Seconds(2)}, {Seconds(-1)}}

ConfigMap(hdrName, userName, excludes, clusters, checkInterval) ==
    [api_key_header |-> hdrName, username_header |-> userName, exclude_paths |-> excludes,
     clusters |-> clusters, check_interval |-> checkInterval]

NoRequest == [hdr |-> {}, qkey |-> {}, ckey |-> {}, ident |-> {}, base |-> P_a,
              decoy |-> FALSE]

\* the state before Parse: no configuration, no key source
Unparsed ==
    /\ config = NoConfig
    /\ snapshot = EmptyMap
    /\ loading = NotLoading
    /\ interval = 0
    /\ Fresh
    /\ pc = "parse"

InitStore ==
    /\ \E f \in InitialContents, ci \in CheckIntervals :
          /\ file = [readable |-> f.readable, lines |-> f.lines, writes |-> 0]
          /\ client = [any |-> ConfigMap("", "", <<>>, [c \in {} |-> <<>>], ci),
                       file0 |-> f, request |-> NoRequest]
    /\ header = RequestOf(client.request)
    /\ cluster = UnknownCluster
    /\ Unparsed

\* the key file is rewritten, removed or made unreadable
WriteFile ==
    /\ pc = "received"
    /\ file.writes < MaxWrites
    /\ \E f \in StoreContents :
          /\ <<f.readable, f.lines>> # <<file.readable, file.lines>>
          /\ file' = [readable |-> f.readable, lines |-> f.lines, writes |-> file.writes + 1]
    /\ UNCHANGED <<config, header, cluster, apiKey, status, reply, lookups, pc, ret, client,
                   response, snapshot, loading, interval>>

LookupKeys == {<<"1">>, <<"4">>}

NextStore ==
    \/ Parse
    \/ WriteFile
    \/ RefreshStart
    \/ RefreshLine
    \/ RefreshSwap
    \/ \E key \in LookupKeys : Lookup(key)

SpecStore == InitStore /\ [][NextStore]_vars

\* the refresh timer keeps firing and a refresh in flight keeps running
SpecStoreFair ==
    /\ SpecStore
    /\ WF_vars(RefreshStart)
    /\ WF_vars(RefreshLine)
    /\ WF_vars(RefreshSwap)

\* the records of a source: its non-blank lines
Records(lines) == {i \in 1..Len(lines) : lines[i] # <<>>}

Colons(line) == {i \in 1..Len(line) : line[i] = ":"}

FirstColon(line) == CHOOSE i \in Colons(line) : \A j \in Colons(line) : i <= j

KeyOf(line) == SubSeq(line, 1, FirstColon(line) - 1)

IdentityOf(line) == SubSeq(line, FirstColon(line) + 1, Len(line))

\* every record has the form key:identity
WellFormed(lines) == \A i \in Records(lines) : Colons(lines[i]) # {}

\* the snapshot of a well-formed source: each key with the identity of its
\* last record
SnapshotOf(lines) ==
    LET keys == {KeyOf(lines[i]) : i \in Records(lines)}
        last(k) == CHOOSE i \in Records(lines) :
                      /\ KeyOf(lines[i]) = k
                      /\ \A j \in Records(lines) : KeyOf(lines[j]) = k => j <= i
    IN  [k \in keys |-> IdentityOf(lines[last(k)])]

\* what a Lookup of the key in snapshot s returns
Found(s, key, r) ==
    IF key \in DOMAIN s THEN ~r.err /\ r.username = s[key] ELSE r.err

(* C14: the active snapshot changes only when a refresh completes, and then *)
(* to the complete snapshot of the source that refresh read; a Lookup       *)
(* during a refresh in flight returns what the snapshot before the refresh  *)
(* or the one after it holds, never what a partly built one holds.          *)
C14_SnapshotWhole ==
    [][pc = "received" =>
          /\ snapshot' # snapshot =>
                /\ loading.active /\ ~loading'.active
                /\ snapshot' = SnapshotOf(loading.read)
          /\ (ret' # ret /\ loading.active) =>
                \/ Found(snapshot, ret'.key, ret')
                \/ /\ WellFormed(loading.read)
                   /\ Found(SnapshotOf(loading.read), ret'.key, ret')]_vars

C14_Witness ==
    /\ pc = "received"
    /\ loading.active
    /\ <<"4">> \in DOMAIN loading.candidate
    /\ loading.lines # <<>>
    /\ snapshot = SnapshotOf(<<L_1>>)
    /\ ret = [key |-> <<"4">>, username |-> <<>>, err |-> TRUE, during |-> TRUE,
              last |-> "none"]

(* C15: once the initial load succeeded, a refresh that fails (unreadable   *)
(* or malformed source) leaves the active snapshot as it was, and a Lookup  *)
(* keeps returning what that snapshot holds.                                *)
C15_FailedRefreshKeepsSnapshot ==
    [][(/\ pc = "received"
        /\ \/ ~loading.active /\ ~file.readable
           \/ loading.active /\ ~WellFormed(loading.read))
       => /\ snapshot' = snapshot
          /\ ret' # ret => Found(snapshot, ret'.key, ret')]_vars

C15_Witness ==
    /\ pc = "received"
    /\ ~loading.active /\ loading.last = "failed"
    /\ file.lines = <<L_1, L_bad>> /\ file.writes = 1
    /\ snapshot = SnapshotOf(<<L_1>>)
    /\ ret = [key |-> <<"1">>, username |-> <<"u", "1">>, err |-> FALSE, during |-> FALSE,
              last |-> "failed"]

\* the source now holds key 4 in a well-formed, readable file that stays
NewKeyWritten ==
    /\ pc = "received"
    /\ file.writes = MaxWrites
    /\ file.readable
    /\ WellFormed(file.lines)
    /\ <<"4">> \in DOMAIN SnapshotOf(file.lines)

KnownKey == <<"4">> \in DOMAIN snapshot /\ ~GetUsername(snapshot, <<"4">>).err

(* C16 as stated: with check_interval > 0, once the file holds a key that   *)
(* was unknown and stays readable, a Lookup of the key eventually succeeds  *)
(* on the same key source.                                                  *)
C16_EventuallyKnown ==
    (/\ NewKeyWritten
     /\ client.any.check_interval # {}
     /\ \/ The(client.any.check_interval).whole > 0
        \/ /\ The(client.any.check_interval).whole = 0
           /\ The(client.any.check_interval).tenths > 0)
    ~> KnownKey

(* C16 as amended: with a check_interval of at least one second (or none or *)
(* a negative one, which select the default of 60 seconds), once the file   *)
(* holds a key that was unknown and stays readable and well-formed, a       *)
(* Lookup of the key eventually succeeds on the same key source.            *)
C16_EventuallyKnownWholeSeconds ==
    (/\ NewKeyWritten
     /\ \/ client.any.check_interval = {}
        \/ The(client.any.check_interval).whole < 0
        \/ The(client.any.check_interval).whole >= 1)
    ~> KnownKey

C16_Witness ==
    /\ pc = "received"
    /\ client.any.check_interval = {Seconds(2)}
    /\ client.file0.lines = <<L_1>>
    /\ file.lines = <<L_4x, L_4c>>
    /\ loading.last = "ok" /\ ~loading.active
    /\ snapshot = [k \in {<<"4">>} |-> <<"u", ":", "4">>]
    /\ ret = [key |-> <<"4">>, username |-> <<"u", ":", "4">>, err |-> FALSE,
              during |-> FALSE, last |-> "ok"]

(* C17: with check_interval = 0 the initial Load runs and the active        *)
(* snapshot is the snapshot of the source as it was then; no refresh ever   *)
(* runs afterwards, whatever happens to the file.                           *)
C17_LoadOnce ==
    (pc = "received" /\ client.any.check_interval = {Seconds(0)})
    => /\ snapshot = SnapshotOf(client.file0.lines)
       /\ ~loading.active
       /\ loading.last = "none"

C17_Witness ==
    /\ pc = "received"
    /\ client.any.check_interval = {Seconds(0)}
    /\ client.file0.lines = <<L_1>>
    /\ file.lines = <<L_1, <<>>, L_4>> /\ file.writes > 0
    /\ snapshot = [k \in {<<"1">>} |-> <<"u", "1">>]
    /\ ret = [key |-> <<"4">>, username |-> <<>>, err |-> TRUE, during |-> FALSE,
              last |-> "none"]

----------------------------------------------------------------------------
(* Parse applied to every configuration map and key file, then the filter  *)
(* on one request under the configuration Parse returned                    *)

ParseMaps ==
    {ConfigMap(h, u, e, cl, ci) :
        h \in {"", "X-Key"}, u \in {"", "X-Name"},
        e \in {<<>>, <<P_health>>},
        cl \in {[c \in {} |-> <<>>], [c \in {"A"} |-> [exclude_paths |-> <<P_a>>]]},
        ci \in {{}, {Seconds(0)}}}

ParseRequests ==
    Clients({{}, {<<"1">>}, {<<"9">>}}, {{}}, {{}, {<<"1">>}}, {{}}, {P_a, P_health}, {FALSE})

InitParse ==
    /\ \E f \in InitialContents, v \in ParseMaps, r \in ParseRequests :
          /\ file = [readable |-> f.readable, lines |-> f.lines, writes |-> 0]
          /\ client = [any |-> v, file0 |-> f, hdr |-> r.hdr, qkey |-> r.qkey,
                       ckey |-> r.ckey, ident |-> r.ident, base |-> r.base,
                       decoy |-> r.decoy]
    /\ header = RequestOf(client)
    /\ cluster \in {UnknownCluster, [name |-> "A", exists |-> TRUE]}
    /\ Unparsed

NextParse == Parse \/ DecodeHeaders \/ EncodeHeaders

SpecParse == InitParse /\ [][NextParse]_vars

(* C19: when the initial load fails (the key file is unreadable or          *)
(* malformed) Parse returns an error and no configuration, so no filter     *)
(* ever handles a request with an empty or missing key store.               *)
C19_NoConfigOnLoadFailure ==
    (pc # "parse" /\ (~client.file0.readable \/ ~WellFormed(client.file0.lines)))
    => /\ pc = "failed"
       /\ ret = [err |-> TRUE]
       /\ config = NoConfig
       /\ status = "none"

C19_Witness ==
    /\ pc = "failed"
    /\ client.file0.lines = <<L_1, L_bad>>
    /\ client.hdr = {<<"1">>}
    /\ config = NoConfig
    /\ ret = [err |-> TRUE]

(* C20: every configuration Parse returns has a non-empty AuthPriority      *)
(* whose elements are among header, query and cookie, so a request that     *)
(* carries a valid key in the default header is never rejected as missing   *)
(* its key.                                                                 *)
C20_PriorityNeverEmpty ==
    /\ pc \in {"received", "decoded", "encoded"}
       => /\ config.AuthPriority # <<>>
          /\ \A i \in 1..Len(config.AuthPriority) :
                config.AuthPriority[i] \in {"header", "query", "cookie"}
    /\ (/\ pc = "decoded"
        /\ config.APIKeyHeader = DefaultAPIKeyHeader
        /\ client.hdr # {}
        /\ The(client.hdr) \in DOMAIN snapshot
        /\ ~Excluded(config, client, cluster))
       => status = "Continue"

\* a request with a valid key in the default header, rejected as missing it
C20_Rejected ==
    /\ pc = "decoded"
    /\ config.APIKeyHeader = DefaultAPIKeyHeader
    /\ config.AuthPriority = <<>>
    /\ client.hdr = {<<"1">>}
    /\ snapshot = SnapshotOf(<<L_1>>)
    /\ ~Excluded(config, client, cluster)
    /\ status = "LocalReply"
    /\ reply.code = StatusUnauthorized
    /\ reply.body = Forbidden
    /\ lookups = 0

----------------------------------------------------------------------------
(* Merge (parser.go) *)

\* one iteration of the loop over the child's cluster configurations
mergeCluster(clusters, clusterName, childClusterConfig) ==
    IF clusterName \in DOMAIN clusters
    THEN [clusters EXCEPT ![clusterName].ExcludePaths =
                              @ \o childClusterConfig.ExcludePaths]
    ELSE MapSet(clusters, clusterName,
                [ExcludePaths |-> childClusterConfig.ExcludePaths])

\* the loop over the child's cluster configurations still to visit
RECURSIVE mergeClusters(_, _, _)
mergeClusters(clusters, childClusters, names) ==
    IF names = {} THEN clusters
    ELSE LET clusterName == CHOOSE n \in names : TRUE
         IN  mergeClusters(mergeCluster(clusters, clusterName, childClusters[clusterName]),
                           childClusters, names \ {clusterName})

\* the *Config Merge returns; KeySource is the name of the key source, ""
\* for nil; the fields the literal does not name keep their zero value
Merge(parentConfig, childConfig) ==
    [APIKeyHeader |-> IF childConfig.APIKeyHeader # "" THEN childConfig.APIKeyHeader
                      ELSE parentConfig.APIKeyHeader,
     UsernameHeader |-> IF childConfig.UsernameHeader # "" THEN childConfig.UsernameHeader
                        ELSE parentConfig.UsernameHeader,
     KeySource |-> IF childConfig.KeySource # "" THEN childConfig.KeySource
                   ELSE parentConfig.KeySource,
     ExcludePaths |-> IF Len(childConfig.ExcludePaths) > 0
                      THEN parentConfig.ExcludePaths \o childConfig.ExcludePaths
                      ELSE parentConfig.ExcludePaths,
     ClusterConfigs |-> mergeClusters(EmptyMap, childConfig.ClusterConfigs,
                                      DOMAIN childConfig.ClusterConfigs),
     AuthPriority |-> <<>>,
     APIKeyQueryParam |-> <<>>,
     APIKeyCookie |-> <<>>,
     CookieSettings |-> ZeroCookieSettings]

----------------------------------------------------------------------------
(* Merge applied to every parent and child configuration *)

MergeClusters ==
    {NoClusters,
     [c \in {"A"} |-> [ExcludePaths |-> <<P_a>>]],
     [c \in {"A"} |-> [ExcludePaths |-> <<P_health>>]],
     [c \in {"A", "B"} |-> [ExcludePaths |-> IF c = "A" THEN <<>> ELSE <<P_a, P_health>>]]}

\* a configuration as Parse returns it, with the given fields
Resolved(hdrName, userName, source, excludes, clusters) ==
    [APIKeyHeader |-> hdrName, UsernameHeader |-> userName, KeySource |-> source,
     ExcludePaths |-> excludes, ClusterConfigs |-> clusters, AuthPriority |-> <<>>,
     APIKeyQueryParam |-> <<>>, APIKeyCookie |-> <<>>,
     CookieSettings |-> ZeroCookieSettings]

ParentConfigs ==
    {Resolved(h, u, "parent", e, cl) :
        h \in {DefaultAPIKeyHeader, "X-Key"}, u \in {DefaultUsernameHeader},
        e \in {<<>>, <<P_health>>}, cl \in MergeClusters}

\* a child as Parse returns it, or a hand-built one with empty fields
ChildConfigs ==
    {Resolved(h, u, k, e, cl) :
        h \in {"", DefaultAPIKeyHeader, "X-Child"}, u \in {"", "X-Name"},
        k \in {"", "child"},
        e \in {<<>>, <<P_a>>, <<P_a, P_health>>}, cl \in MergeClusters}

InitMerge ==
    /\ config = Cfg(HeaderName, ParamName, CookieName, <<"header">>, <<>>, NoClusters)
    /\ Loaded(Store123)
    /\ client \in [parent : ParentConfigs, child : ChildConfigs]
    /\ header = [path |-> P_a, fields |-> EmptyMap]
    /\ cluster = UnknownCluster
    /\ Fresh
    /\ pc = "call"

CallMerge ==
    /\ pc = "call"
    /\ ret' = Merge(client.parent, client.child)
    /\ pc' = "done"
    /\ UNCHANGED <<config, header, cluster, apiKey, status, reply, lookups, client, response,
                   keySource>>

SpecMerge == InitMerge /\ [][CallMerge]_vars

\* the exclusion list a side gives for a cluster, empty when it has none
ListOf(cfg, c) ==
    IF c \in DOMAIN cfg.ClusterConfigs THEN cfg.ClusterConfigs[c].ExcludePaths ELSE <<>>

(* C18: Merge yields a configuration in which each scalar is the child's    *)
(* when that is non-empty and the parent's otherwise, the global exclusion  *)
(* list is the parent's followed by the child's, and the cluster map holds  *)
(* every cluster of the parent and of the child, each with the parent's     *)
(* list followed by the child's (no parent entry is lost).                  *)
C18_MergeUnions ==
    pc = "done"
    => LET p == client.parent
           c == client.child
       IN  /\ ret.APIKeyHeader = IF c.APIKeyHeader # "" THEN c.APIKeyHeader
                                 ELSE p.APIKeyHeader
           /\ ret.UsernameHeader = IF c.UsernameHeader # "" THEN c.UsernameHeader
                                   ELSE p.UsernameHeader
           /\ ret.ExcludePaths = p.ExcludePaths \o c.ExcludePaths
           /\ DOMAIN ret.ClusterConfigs = DOMAIN p.ClusterConfigs \cup DOMAIN c.ClusterConfigs
           /\ \A n \in DOMAIN ret.ClusterConfigs :
                 ret.ClusterConfigs[n].ExcludePaths = ListOf(p, n) \o ListOf(c, n)

\* a merge that lost the parent's cluster entry
C18_ParentClusterLost ==
    /\ pc = "done"
    /\ client.parent.ClusterConfigs = [c \in {"A"} |-> [ExcludePaths |-> <<P_a>>]]
    /\ client.child.ClusterConfigs = NoClusters
    /\ client.child.ExcludePaths = <<P_a>>
    /\ ret.ExcludePaths = client.parent.ExcludePaths \o <<P_a>>
    /\ ret.ClusterConfigs = NoClusters

----------------------------------------------------------------------------
(* The outcome of a request, stated on what the client sent *)

\* the outcome the request's path, credentials and the key store call for
Expected(cfg, c, streamInfo, store) ==
    IF Excluded(cfg, c, streamInfo) THEN "ADMIT"
    ELSE IF FirstHolding(cfg, c).apiKey = <<>> THEN "REJECT_MISSING"
    ELSE IF FirstHolding(cfg, c).apiKey \in DOMAIN store THEN "ADMIT"
    ELSE "REJECT_INVALID"

\* the outcome DecodeHeaders reached
Reached ==
    IF status = "Continue" /\ reply = NoReply THEN "ADMIT"
    ELSE IF status = "LocalReply" /\ reply.body = Forbidden THEN "REJECT_MISSING"
    ELSE IF status = "LocalReply" /\ reply.body = InvalidAPIKey THEN "REJECT_INVALID"
    ELSE "none"

(* C21: every request reaches exactly the one outcome its path, its         *)
(* credentials and the key store call for (excluded: ADMIT; no value:       *)
(* REJECT_MISSING; key found: ADMIT; key absent: REJECT_INVALID), the key   *)
(* store being consulted only on the way to VALIDATE; a rejection is        *)
(* terminal: no Set-Cookie is ever issued for a rejected request.           *)
C21_OneOutcomeRejectionTerminal ==
    /\ pc \in {"decoded", "encoded"}
       => /\ Reached = Expected(config, client, cluster, snapshot)
          /\ lookups = IF ~Excluded(config, client, cluster)
                          /\ FirstHolding(config, client).apiKey # <<>>
                       THEN 1 ELSE 0
    /\ status = "LocalReply" => response = <<>>

\* a rejected request whose local reply was given a Set-Cookie
C21_CookieAfterRejection ==
    /\ pc = "encoded"
    /\ Reached = "REJECT_INVALID"
    /\ client.hdr = {<<"9">>}
    /\ apiKey = <<>>
    /\ response = << <<"c", "=", ";", " ", "M", "a", "x", "-", "A", "g", "e", "=", "2", "5", "9", "2", "0", "0", "0", ";", " ", "P", "a", "t", "h", "=", "/", ";", " ", "S", "e", "c", "u", "r", "e", ";", " ", "H", "t", "t", "p", "O", "n", "l", "y", ";", " ", "S", "a", "m", "e", "S", "i", "t", "e", "=", "L", "a", "x">> >>

(* C25: every Set-Cookie the filter adds carries the non-empty key that the *)
(* key store validated in the DecodeHeaders of the same request; a request  *)
(* admitted through a path exclusion, and a rejected one, gets no           *)
(* Set-Cookie, and none with an empty value.                                *)
C25_CookieCarriesValidatedKey ==
    /\ \A i \in 1..Len(response) :
          LET key == FirstHolding(config, client).apiKey
          IN  /\ ~Excluded(config, client, cluster)
              /\ status = "Continue"
              /\ key # <<>>
              /\ key \in DOMAIN snapshot
              /\ response[i] = Join(Attributes(config.APIKeyCookie, key,
                                               config.CookieSettings), <<";", " ">>)
    /\ (Excluded(config, client, cluster) \/ status = "LocalReply") => response = <<>>

\* a request admitted through a path exclusion whose response was given a
\* Set-Cookie with an empty value
C25_EmptyCookieOnExcludedPath ==
    /\ pc = "encoded"
    /\ Excluded(config, client, cluster)
    /\ status = "Continue"
    /\ lookups = 0
    /\ apiKey = <<>>
    /\ response = << <<"c", "=", ";", " ", "M", "a", "x", "-", "A", "g", "e", "=", "2", "5", "9", "2", "0", "0", "0", ";", " ", "P", "a", "t", "h", "=", "/", ";", " ", "S", "e", "c", "u", "r", "e", ";", " ", "H", "t", "t", "p", "O", "n", "l", "y", ";", " ", "S", "a", "m", "e", "S", "i", "t", "e", "=", "L", "a", "x">> >>

(* C22: when the first source of the priority order that holds a non-empty  *)
(* value holds a key the store does not have, the request is rejected with  *)
(* "Invalid API key" whatever the later sources hold, a key the store has   *)
(* included; the key store is looked up at most once per request.           *)
C22_NoFallback ==
    /\ lookups <= 1
    /\ (/\ pc \in {"decoded", "encoded"}
        /\ ~Excluded(config, client, cluster)
        /\ FirstHolding(config, client).apiKey # <<>>
        /\ FirstHolding(config, client).apiKey \notin DOMAIN snapshot)
       => /\ Reached = "REJECT_INVALID"
          /\ reply.code = StatusUnauthorized
          /\ lookups = 1
          /\ apiKey = <<>>
          /\ header = RequestOf(client)

C22_Witness ==
    /\ pc = "decoded"
    /\ ~Excluded(config, client, cluster)
    /\ config.AuthPriority = <<"header", "query", "cookie">>
    /\ config.APIKeyHeader = HeaderName
    /\ client.hdr = {<<"9">>} /\ client.qkey = {<<"2">>} /\ client.ckey = {<<"3">>}
    /\ <<"2">> \in DOMAIN snapshot /\ <<"3">> \in DOMAIN snapshot
    /\ status = "LocalReply" /\ reply.body = InvalidAPIKey
    /\ lookups = 1

(* C24: DecodeHeaders leaves the response alone; a rejected request         *)
(* (missing or invalid credential) keeps its request headers exactly as     *)
(* received and the filter's stored key stays empty; the request headers    *)
(* change only by the identity header being set after a successful lookup.  *)
C24_NoSideEffects ==
    /\ pc = "decoded" => response = <<>>
    /\ status = "LocalReply" => (header = RequestOf(client) /\ apiKey = <<>>)
    /\ (pc \in {"decoded", "encoded"} /\ header # RequestOf(client))
       => /\ Reached = "ADMIT"
          /\ lookups = 1
          /\ FirstHolding(config, client).apiKey \in DOMAIN snapshot
          /\ header.path = RequestOf(client).path
          /\ DOMAIN header.fields = DOMAIN RequestOf(client).fields \cup {config.UsernameHeader}
          /\ \A n \in DOMAIN header.fields :
                header.fields[n] = IF n = config.UsernameHeader
                                   THEN snapshot[FirstHolding(config, client).apiKey]
                                   ELSE RequestOf(client).fields[n]

C24_Witness ==
    /\ pc = "decoded"
    /\ Reached = "REJECT_INVALID"
    /\ client.hdr = {<<"9">>} /\ client.ident = {Evil}
    /\ header = RequestOf(client)
    /\ header.fields[IdentityHeader] = Evil
    /\ apiKey = <<>>
    /\ response = <<>>

\* the identity header DecodeHeaders leaves in the request headers hdr
UpstreamIdentity(cfg, hdr) ==
    IF cfg.UsernameHeader \in DOMAIN hdr.fields THEN {hdr.fields[cfg.UsernameHeader]} ELSE {}

(* C26: whenever a request continues upstream with the identity header      *)
(* present, the header's value is the identity the key store resolved, in   *)
(* this request's one lookup, for the key the request presented; what the   *)
(* client sent in the identity header never decides what upstream sees,     *)
(* requests admitted through a path or cluster exclusion included.          *)
C26_IdentityAlwaysResolved ==
    (pc \in {"decoded", "encoded"} /\ status = "Continue")
    => /\ config.UsernameHeader \in DOMAIN header.fields
          => /\ lookups = 1
             /\ FirstHolding(config, client).apiKey \in DOMAIN snapshot
             /\ header.fields[config.UsernameHeader]
                  = snapshot[FirstHolding(config, client).apiKey]
       /\ \A sent \in {{}, {Evil}, {<<"u", "1">>}} :
             LET other == DecodeOutcome(config, snapshot,
                              RequestOf([client EXCEPT !.ident = sent]), cluster, <<>>)
             IN  /\ other.status = "Continue"
                 /\ UpstreamIdentity(config, other.header) = UpstreamIdentity(config, header)

\* a request admitted through an exclusion that carries the client's own
\* identity header upstream
C26_SpoofedIdentityUpstream ==
    /\ pc = "decoded"
    /\ Excluded(config, client, cluster)
    /\ status = "Continue"
    /\ client.ident = {Evil} /\ client.hdr = {} /\ client.qkey = {} /\ client.ckey = {}
    /\ lookups = 0
    /\ header.fields[IdentityHeader] = Evil

----------------------------------------------------------------------------
(* Merge on the heap (parser.go): a []string is a slice [arr, len, cap] of  *)
(* a backing array, a map and a *ClusterConfig are references; arr = 0 is   *)
(* a slice without backing array (nil, or empty with capacity 0)            *)

NilSlice == [arr |-> 0, len |-> 0, cap |-> 0]

EmptyHeap == [arrays |-> <<>>, clusters |-> <<>>, maps |-> <<>>]

\* the elements of slice s
Elems(h, s) == IF s.len = 0 THEN <<>> ELSE SubSeq(h.arrays[s.arr], 1, s.len)

\* a new backing array holding elems, with the spare capacity the runtime's
\* size classes add
NewSlice(h, elems, spare) ==
    IF elems = <<>> THEN [slice |-> NilSlice, heap |-> h]
    ELSE [slice |-> [arr |-> Len(h.arrays) + 1, len |-> Len(elems),
                     cap |-> Len(elems) + spare],
          heap |-> [h EXCEPT !.arrays =
                       Append(@, elems \o [i \in 1..spare |-> <<>>])]]

\* (mutation of Clone: the slice itself is returned)
Clone_alias(h, s, spare) == [slice |-> s, heap |-> h]

\* slices.Clone(s)
Clone(h, s, spare) == NewSlice(h, Elems(h, s), spare)

\* append(s, xs...): in place when the capacity allows, else a new array
AppendSlice(h, s, xs, spare) ==
    IF xs = <<>> THEN [slice |-> s, heap |-> h]
    ELSE IF s.len + Len(xs) <= s.cap
    THEN [slice |-> [s EXCEPT !.len = s.len + Len(xs)],
          heap |-> [h EXCEPT !.arrays[s.arr] =
                       [i \in 1..Len(@) |->
                           IF i > s.len /\ i <= s.len + Len(xs) THEN xs[i - s.len]
                           ELSE @[i]]]]
    ELSE NewSlice(h, Elems(h, s) \o xs, spare)

\* one iteration of the loop over the child's cluster configurations; st is
\* [heap, map], map the reference of newConfig.ClusterConfigs
mergeClusterHeap(st, clusterName, childClusterConfig, spare) ==
    LET h == st.heap
        m == h.maps[st.map]
        paths == Elems(h, childClusterConfig.ExcludePaths)
    IN  IF clusterName \in DOMAIN m
        THEN LET a == AppendSlice(h, h.clusters[m[clusterName]].ExcludePaths, paths, spare)
             IN  [st EXCEPT !.heap =
                     [a.heap EXCEPT !.clusters[m[clusterName]].ExcludePaths = a.slice]]
        ELSE LET a == AppendSlice(h, NilSlice, paths, spare)
             IN  [st EXCEPT !.heap =
                     [a.heap EXCEPT !.clusters = Append(@, [ExcludePaths |-> a.slice]),
                                    !.maps[st.map] =
                                        MapSet(@, clusterName, Len(a.heap.clusters) + 1)]]

RECURSIVE mergeClustersHeap(_, _, _, _)
mergeClustersHeap(st, childMap, names, spare) ==
    IF names = {} THEN st
    ELSE LET clusterName == CHOOSE n \in names : TRUE
             childClusterConfig == st.heap.clusters[childMap[clusterName]]
         IN  mergeClustersHeap(mergeClusterHeap(st, clusterName, childClusterConfig, spare),
                               childMap, names \ {clusterName}, spare)

\* Merge: the *Config it returns and the heap it leaves
MergeHeap(parentConfig, childConfig, h, spare) ==
    LET cloned == Clone(h, parentConfig.ExcludePaths, spare)
        made == [cloned.heap EXCEPT !.maps = Append(@, EmptyMap)]
        newMap == Len(made.maps)
        excludes == IF childConfig.ExcludePaths.len > 0
                    THEN AppendSlice(made, cloned.slice,
                                     Elems(made, childConfig.ExcludePaths), spare)
                    ELSE [slice |-> cloned.slice, heap |-> made]
        childMap == excludes.heap.maps[childConfig.ClusterConfigs]
        merged == mergeClustersHeap([heap |-> excludes.heap, map |-> newMap],
                                    childMap, DOMAIN childMap, spare)
    IN  [config |->
            [APIKeyHeader |-> IF childConfig.APIKeyHeader # "" THEN childConfig.APIKeyHeader
                              ELSE parentConfig.APIKeyHeader,
             UsernameHeader |-> IF childConfig.UsernameHeader # ""
                                THEN childConfig.UsernameHeader
                                ELSE parentConfig.UsernameHeader,
             KeySource |-> IF childConfig.KeySource # "" THEN childConfig.KeySource
                           ELSE parentConfig.KeySource,
             ExcludePaths |-> excludes.slice,
             ClusterConfigs |-> newMap],
         heap |-> merged.heap]

----------------------------------------------------------------------------
(* Merge applied to a parent and a child on the heap, then a caller writing *)
(* to the lists and the cluster map of the configuration Merge returned     *)

\* the value of the configuration cfg refers to in heap h
ValueOf(cfg, h) ==
    Resolved(cfg.APIKeyHeader, cfg.UsernameHeader, cfg.KeySource,
             Elems(h, cfg.ExcludePaths),
             [n \in DOMAIN h.maps[cfg.ClusterConfigs] |->
                 [ExcludePaths |->
                     Elems(h, h.clusters[h.maps[cfg.ClusterConfigs][n]].ExcludePaths)]])

\* the cluster configurations of v put on the heap, one after the other
RECURSIVE StoreClusters(_, _, _, _, _)
StoreClusters(h, map, v, names, spare) ==
    IF names = {} THEN h
    ELSE LET n == CHOOSE x \in names : TRUE
             a == NewSlice(h, v.ClusterConfigs[n].ExcludePaths, spare)
             put == [a.heap EXCEPT !.clusters = Append(@, [ExcludePaths |-> a.slice]),
                                   !.maps[map] = MapSet(@, n, Len(a.heap.clusters) + 1)]
         IN  StoreClusters(put, map, v, names \ {n}, spare)

\* the configuration value v put on the heap h, its lists with spare capacity
StoreConfig(h, v, spare) ==
    LET a == NewSlice(h, v.ExcludePaths, spare)
        made == [a.heap EXCEPT !.maps = Append(@, EmptyMap)]
        map == Len(made.maps)
    IN  [config |-> [APIKeyHeader |-> v.APIKeyHeader, UsernameHeader |-> v.UsernameHeader,
                     KeySource |-> v.KeySource, ExcludePaths |-> a.slice,
                     ClusterConfigs |-> map],
         heap |-> StoreClusters(made, map, v, DOMAIN v.ClusterConfigs, spare)]

HeapClusters ==
    {NoClusters,
     [c \in {"A"} |-> [ExcludePaths |-> <<P_a>>]],
     [c \in {"A", "B"} |-> [ExcludePaths |-> IF c = "A" THEN <<>> ELSE <<P_a, P_health>>]]}

HeapParents ==
    {Resolved(DefaultAPIKeyHeader, DefaultUsernameHeader, "parent", e, cl) :
        e \in {<<>>, <<P_health>>}, cl \in HeapClusters}

HeapChildren ==
    {Resolved(h, "", "", e, cl) :
        h \in {"", "X-Child"}, e \in {<<>>, <<P_a>>}, cl \in HeapClusters}

P_new == <<"/", "n">>

InitMergeHeap ==
    /\ config = Cfg(HeaderName, ParamName, CookieName, <<"header">>, <<>>, NoClusters)
    /\ Loaded(Store123)
    /\ \E p \in HeapParents, c \in HeapChildren, held \in {0, 1}, spare \in {0, 1} :
          LET sp == StoreConfig(EmptyHeap, p, held)
              sc == StoreConfig(sp.heap, c, held)
          IN  client = [parent |-> sp.config, child |-> sc.config, heap |-> sc.heap,
                        spare |-> spare]
    /\ header = [path |-> P_a, fields |-> EmptyMap]
    /\ cluster = UnknownCluster
    /\ Fresh
    /\ pc = "call"

CallMergeHeap ==
    /\ pc = "call"
    /\ LET out == MergeHeap(client.parent, client.child, client.heap, client.spare)
       IN  ret' = [config |-> out.config, heap |-> out.heap, writes |-> 0]
    /\ pc' = "done"
    /\ UNCHANGED <<config, header, cluster, apiKey, status, reply, lookups, client, response,
                   keySource>>

\* the caller's write leaves heap h and the returned configuration cfg
Written(cfg, h) ==
    /\ ret' = [config |-> cfg, heap |-> h, writes |-> ret.writes + 1]
    /\ UNCHANGED <<config, header, cluster, apiKey, status, reply, lookups, pc, client,
                   response, keySource>>

\* merged.ExcludePaths[i] = P_new
SetExcludePath ==
    /\ pc = "done" /\ ret.writes < MaxMutations
    /\ \E i \in 1..ret.config.ExcludePaths.len :
          Written(ret.config,
                  [ret.heap EXCEPT !.arrays[ret.config.ExcludePaths.arr][i] = P_new])

\* merged.ExcludePaths = append(merged.ExcludePaths, P_new)
AppendExcludePath ==
    /\ pc = "done" /\ ret.writes < MaxMutations
    /\ LET a == AppendSlice(ret.heap, ret.config.ExcludePaths, <<P_new>>, client.spare)
       IN  Written([ret.config EXCEPT !.ExcludePaths = a.slice], a.heap)

\* merged.ClusterConfigs[n].ExcludePaths[i] = P_new
SetClusterPath ==
    /\ pc = "done" /\ ret.writes < MaxMutations
    /\ \E n \in DOMAIN ret.heap.maps[ret.config.ClusterConfigs] :
          LET s == ret.heap.clusters[ret.heap.maps[ret.config.ClusterConfigs][n]].ExcludePaths
          IN  \E i \in 1..s.len :
                 Written(ret.config, [ret.heap EXCEPT !.arrays[s.arr][i] = P_new])

\* cc := merged.ClusterConfigs[n]; cc.ExcludePaths = append(cc.ExcludePaths, P_new)
AppendClusterPath ==
    /\ pc = "done" /\ ret.writes < MaxMutations
    /\ \E n \in DOMAIN ret.heap.maps[ret.config.ClusterConfigs] :
          LET id == ret.heap.maps[ret.config.ClusterConfigs][n]
              a == AppendSlice(ret.heap, ret.heap.clusters[id].ExcludePaths, <<P_new>>,
                               client.spare)
          IN  Written(ret.config, [a.heap EXCEPT !.clusters[id].ExcludePaths = a.slice])

\* merged.ClusterConfigs[n] = &ClusterConfig{ExcludePaths: []string{P_new}}
PutCluster ==
    /\ pc = "done" /\ ret.writes < MaxMutations
    /\ \E n \in {"A", "C"} :
          LET a == NewSlice(ret.heap, <<P_new>>, client.spare)
          IN  Written(ret.config,
                      [a.heap EXCEPT !.clusters = Append(@, [ExcludePaths |-> a.slice]),
                                     !.maps[ret.config.ClusterConfigs] =
                                         MapSet(@, n, Len(a.heap.clusters) + 1)])

NextMergeHeap ==
    \/ CallMergeHeap
    \/ SetExcludePath
    \/ AppendExcludePath
    \/ SetClusterPath
    \/ AppendClusterPath
    \/ PutCluster

SpecMergeHeap == InitMergeHeap /\ [][NextMergeHeap]_vars

(* C23: after Merge(parent, child), and after any later write to the        *)
(* returned configuration's exclusion list, cluster lists or cluster map,   *)
(* the parent and the child (scalars, global exclusion list, cluster map    *)
(* and every cluster's prefix list) are what they were before the call; and *)
(* what Merge returns depends on the values of its two arguments only, not  *)
(* on where they lie in memory.                                             *)
C23_MergePure ==
    pc = "done"
    => /\ ValueOf(client.parent, ret.heap) = ValueOf(client.parent, client.heap)
       /\ ValueOf(client.child, ret.heap) = ValueOf(client.child, client.heap)
       /\ ret.writes = 0
          => ValueOf(ret.config, ret.heap)
               = Merge(ValueOf(client.parent, client.heap),
                       ValueOf(client.child, client.heap))

C23_Witness ==
    /\ pc = "done"
    /\ ret.writes = MaxMutations
    /\ Elems(client.heap, client.parent.ExcludePaths) = <<P_health>>
    /\ Elems(client.heap, client.child.ExcludePaths) = <<P_a>>
    /\ Elems(ret.heap, ret.config.ExcludePaths) = <<P_new, P_a, P_new>>
    /\ Elems(ret.heap, client.parent.ExcludePaths) = <<P_health>>

====
